---- MODULE Spec2Model ----
(***************************************************************************)
(* Model of the energy allocation engine of the dynamic tariff             *)
(* benchmarking framework:                                                 *)
(*   - P2PTradingMechanism (src/src/models/p2p_trading.py): the greedy     *)
(*     bilateral matcher, its adjacency and its period simulation;         *)
(*   - ProsumerCommunityOptimizer (src/src/optimization/                   *)
(*     prosumer_optimizer.py): the constraint set of setup_problem;        *)
(*   - SimulationOrchestrator._calculate_energy_metrics.                   *)
(*                                                                         *)
(* Energy is a fixed-point integer: UnitsPerKWh units make one energy      *)
(* unit of the program.  A product or quotient with the efficiency is      *)
(* rounded to the nearest unit, as the floating-point operation rounds to  *)
(* the nearest representable number.  It is exact for the amounts of Spec  *)
(* and SpecPeriod (ExactArithmetic states it); SpecMeasured draws amounts  *)
(* for which it is not.                                                    *)
(* An efficiency is a pair <<numerator, denominator>>.                     *)
(***************************************************************************)
EXTENDS Integers, Sequences, FiniteSets, TLC

\* ---------------------------------------------------------------- bounds
num_buildings == 3

\* generation_profiles.shape[1] of simulate_trading_period
time_steps == 2

\* num_buildings of the optimizer
opt_num_buildings == 2

\* largest number of buildings with a battery in a community
max_batteries == 1

\* num_scenarios of benchmark_tariff_scenarios
num_scenarios == 2

\* time_horizon of the optimizer
time_horizon == 2

Buildings == 0 .. (num_buildings - 1)

Steps == 0 .. (time_steps - 1)

\* ------------------------------------------------------------ arithmetic
UnitsPerKWh == 20 * 20 * 20 * 1000

Milli == UnitsPerKWh \div 1000

\* "if trade_amount > 0.001" (p2p_trading.py:126)
MinTradeThreshold == Milli

Min(a, b) == IF a <= b THEN a ELSE b

Max(a, b) == IF a >= b THEN a ELSE b

\* x * trading_efficiency, rounded to the nearest unit
MulEff(x, eff) == (2 * x * eff[1] + eff[2]) \div (2 * eff[2])

\* x / trading_efficiency, rounded to the nearest unit
DivEff(x, eff) == (2 * x * eff[2] + eff[1]) \div (2 * eff[1])

RECURSIVE SumOver(_, _)
SumOver(f, S) ==
    IF S = {} THEN 0
    ELSE LET x == CHOOSE y \in S : TRUE
         IN  f[x] + SumOver(f, S \ {x})

RECURSIVE Gcd(_, _)
Gcd(a, b) == IF b = 0 THEN a ELSE Gcd(b, a % b)

\* the rational n / d (d > 0, n >= 0) in lowest terms, as <<numerator, denominator>>
Fraction(n, d) == LET g == Gcd(n, d) IN << n \div g, d \div g >>

Zeros == [i \in Buildings |-> 0]

\* np.zeros((num_buildings, time_steps))
ZeroSeries == [i \in Buildings |-> [t \in Steps |-> 0]]

\* np.sum over a [buildings x time_steps] array
SeriesSum(a) == SumOver([i \in Buildings |-> SumOver(a[i], Steps)], Buildings)

\* a[:, t]
Column(a, t) == [i \in Buildings |-> a[i][t]]

\* a[:, t] = v
WithColumn(a, t, v) == [i \in Buildings |-> [a[i] EXCEPT ![t] = v[i]]]

ZeroMatrix == [i \in Buildings |-> [j \in Buildings |-> 0]]

\* np.sum(m, axis=1)[i]
RowSum(m, i) == SumOver(m[i], Buildings)

\* np.sum(m, axis=0)[j]
ColSum(m, j) == SumOver([i \in Buildings |-> m[i][j]], Buildings)

\* ---------------------------------------------------------------- inputs
\* trading_efficiency values a mechanism is constructed with (default 0.95)
Efficiencies == { <<19, 20>>, <<1, 1>> }

\* (surplus, deficit) of one building in a direct call of the matcher
BuildingKinds ==
    { <<0, 0>>,
      <<5 * UnitsPerKWh, 0>>, <<2 * UnitsPerKWh, 0>>, <<Milli, 0>>,
      <<0, 3 * UnitsPerKWh>>, <<0, UnitsPerKWh>>,
      <<2 * UnitsPerKWh, 3 * UnitsPerKWh>>, <<5 * UnitsPerKWh, UnitsPerKWh>> }

\* (surplus, deficit) of one building as a meter reports it: amounts whose product
\* with 0.95 is not a whole number of units
MeasuredKinds ==
    { <<0, 0>>,
      <<2 * UnitsPerKWh + 10, 0>>, <<5 * UnitsPerKWh, 0>>,
      <<0, 3 * UnitsPerKWh>>, <<0, UnitsPerKWh + 10>>,
      <<2 * UnitsPerKWh + 10, 3 * UnitsPerKWh>> }

\* (community, export, import) prices, in twentieths of a currency unit
PriceTriples ==
    { <<3, 2, 4>>, <<2, 2, 4>>, <<4, 2, 4>>, <<1, 2, 4>>, <<5, 2, 4>> }

\* The profile a building follows over a period: <<generation, demand>> at step t
ProfileCell(kind, t) ==
    CASE kind = "consumer" -> << 0, 3 * UnitsPerKWh >>
      [] kind = "prosumer" -> IF t % 2 = 0 THEN << 5 * UnitsPerKWh, UnitsPerKWh >>
                                           ELSE << 0, 3 * UnitsPerKWh >>
      [] kind = "evening"  -> IF t % 2 = 1 THEN << 5 * UnitsPerKWh, UnitsPerKWh >>
                                           ELSE << 0, UnitsPerKWh >>
      [] kind = "producer" -> << 2 * UnitsPerKWh, 0 >>

BuildingProfiles == { "consumer", "prosumer", "evening", "producer" }

\* The (community, export, import) prices of a period at step t
PriceAt(kind, t) ==
    CASE kind = "spread"      -> << 3, 2, 4 >>
      [] kind = "flat"        -> << 2, 2, 4 >>
      [] kind = "alternating" -> IF t % 2 = 0 THEN << 3, 2, 4 >> ELSE << 4, 2, 4 >>
      [] kind = "dear"        -> IF t % 2 = 0 THEN << 5, 2, 4 >> ELSE << 1, 2, 4 >>

PriceProfiles == { "spread", "flat", "alternating", "dear" }

\* Entry (i,j) of the matrices handed to set_trading_network
PatternEntry(p, i, j) ==
    CASE p = "ones"   -> 1
      [] p = "zeros"  -> 0
      [] p = "line"   -> IF i - j = 1 \/ j - i = 1 THEN 1 ELSE 0
      [] p = "diag"   -> IF i = j THEN 1 ELSE 0
      [] p = "weights" -> IF i = j THEN 2 ELSE IF i < j THEN 2 ELSE 1

Patterns == { "ones", "zeros", "line", "diag", "weights" }

Shapes ==
    { <<num_buildings, num_buildings>>,
      <<num_buildings + 1, num_buildings + 1>>,
      <<num_buildings, num_buildings + 1>> }

MakeMatrix(p, shape) ==
    [i \in 0 .. (shape[1] - 1) |-> [j \in 0 .. (shape[2] - 1) |-> PatternEntry(p, i, j)]]

AdjacencyInputs == { MakeMatrix(p, s) : p \in Patterns, s \in Shapes }

\* adjacency_matrix.shape
Shape(m) == << Cardinality(DOMAIN m), Cardinality(DOMAIN m[0]) >>

\* ----------------------------------------------------------------- state
VARIABLES
    trading_efficiency,   \* self.trading_efficiency
    trading_allowed,      \* self.trading_allowed
    call,                 \* the operation in progress or last completed, with its arguments
    pc,                   \* position of the matcher: "idle", "outer", "inner", "done"
    trading_matrix,       \* local trading_matrix of optimize_trading_flows
    surplus_remaining,    \* local surplus_remaining
    deficit_remaining,    \* local deficit_remaining
    outer_todo,           \* buildings of surplus_order not yet visited
    cur_i,                \* the surplus-holder i of the outer loop
    inner_todo,           \* buildings of deficit_order not yet visited
    results,              \* the dictionary returned by optimize_trading_flows
    error,                \* the exception raised by the last operation, or "none"
    period,               \* arguments and locals of simulate_trading_period in progress
    period_results,       \* the dictionary returned by simulate_trading_period
    eta,                  \* self.eta_ch and self.eta_dis of the optimizer
    scenario,             \* the data and prices of run_single_scenario, or NoScenario
    opc,                  \* position of run_single_scenario
    sol,                  \* the values of the cvxpy variables of the optimizer
    next_cell,            \* number of cells (i, t) the solver has assigned
    optimization_results, \* the dictionary returned by solve
    energy_metrics,       \* the dictionary returned by _calculate_energy_metrics
    problem,              \* status and value of the cp.Problem after problem.solve
    individual_costs,     \* the vector run_single_scenario got from calculate_individual_costs
    attributed,           \* arguments and result of the last direct call of calculate_individual_costs
    record,               \* the dictionary returned by run_single_scenario
    other,                \* a second problem built from the same optimizer, and its solve
    batch,                \* arguments and locals of benchmark_tariff_scenarios
    benchmark_results     \* the dictionary returned by benchmark_tariff_scenarios

matcher_vars ==
    << trading_efficiency, trading_allowed, call, pc, trading_matrix, surplus_remaining,
       deficit_remaining, outer_todo, cur_i, inner_todo, results, error >>

period_vars == << period, period_results >>

batch_vars == << batch, benchmark_results >>

opt_vars ==
    << eta, scenario, opc, sol, next_cell, optimization_results, energy_metrics,
       problem, individual_costs, attributed, record, other, batch_vars >>

vars == << matcher_vars, period_vars, opt_vars >>

NoCall == [op |-> "none"]

NoResults == [status |-> "none"]

NoPeriod == [active |-> FALSE]

\* ---------------------------------------------- P2PTradingMechanism code
\* np.fill_diagonal(m, 0)
FillDiagonalZero(m) ==
    [i \in DOMAIN m |-> [j \in DOMAIN m[i] |-> IF i = j THEN 0 ELSE m[i][j]]]

\* __init__: np.ones((n, n)) with the diagonal zeroed
InitialAdjacency ==
    FillDiagonalZero([i \in Buildings |-> [j \in Buildings |-> 1]])

\* a shape test that compares the number of rows only
ShapeMatchesRowsOnly(m) == Shape(m)[1] = num_buildings

\* set_trading_network: the shape test
ShapeMatches(m) == Shape(m) = <<num_buildings, num_buildings>>

\* the copy stored without np.fill_diagonal
StoredAdjacencyNoFill(m) == m

\* set_trading_network: the adjacency stored for a matrix of the right shape
StoredAdjacency(m) == FillDiagonalZero(m)

\* the price test with non-strict comparisons
TradingBeneficialNonStrict(community_price, grid_export_price, grid_import_price) ==
    LET export_benefit == community_price - grid_export_price
        import_benefit == grid_import_price - community_price
    IN  export_benefit >= 0 /\ import_benefit >= 0

\* a pass that trades whatever the prices are
TradingWhateverThePrices(community_price, grid_export_price, grid_import_price) == TRUE

\* "if export_benefit > 0 and import_benefit > 0"
TradingBeneficial(community_price, grid_export_price, grid_import_price) ==
    LET export_benefit == community_price - grid_export_price
        import_benefit == grid_import_price - community_price
    IN  export_benefit > 0 /\ import_benefit > 0

\* available_traders without the test of trading_allowed
AvailableTradersAnyPair(i, deficit_rem, allowed) ==
    { j \in Buildings : deficit_rem[j] > 0 }

\* available_traders of surplus-holder i
AvailableTraders(i, deficit_rem, allowed) ==
    { j \in Buildings : deficit_rem[j] > 0 /\ allowed[i][j] = 1 }

\* the trade amount without the transfer loss
TradeAmountNoLoss(s, d, eff) == Min(s, d)

\* trade_amount = min(surplus_remaining[i], deficit_remaining[j]) * efficiency
TradeAmount(s, d, eff) == MulEff(Min(s, d), eff)

\* a threshold test that accepts a trade of exactly the threshold
TradeAcceptedAtThreshold(trade_amount) == trade_amount >= MinTradeThreshold

\* "if trade_amount > 0.001"
TradeAccepted(trade_amount) == trade_amount > MinTradeThreshold

\* a debit of the exporter by the amount delivered
SurplusAfterTradeDelivered(s, trade_amount, eff) == s - trade_amount

\* line 128: surplus_remaining[i] -= trade_amount / self.trading_efficiency
SurplusAfterTrade(s, trade_amount, eff) == s - DivEff(trade_amount, eff)

\* line 129: deficit_remaining[j] -= trade_amount
DeficitAfterTrade(d, trade_amount) == d - trade_amount

\* lines 131-143: the post-trading grid interactions and the result dictionary
GridExports(surplus, tm) ==
    [i \in Buildings |-> Max(surplus[i] - RowSum(tm, i), 0)]

GridImports(deficit, tm) ==
    [j \in Buildings |-> Max(deficit[j] - ColSum(tm, j), 0)]

MakeResults(surplus, deficit, tm) ==
    [ status            |-> "returned",
      trading_matrix    |-> tm,
      community_exports |-> [i \in Buildings |-> RowSum(tm, i)],
      community_imports |-> [j \in Buildings |-> ColSum(tm, j)],
      grid_exports      |-> GridExports(surplus, tm),
      grid_imports      |-> GridImports(deficit, tm) ]

\* -------------------------------------------------------------- actions
MatcherInit ==
    /\ trading_efficiency \in Efficiencies
    /\ trading_allowed = InitialAdjacency
    /\ call = NoCall
    /\ pc = "idle"
    /\ trading_matrix = ZeroMatrix
    /\ surplus_remaining = Zeros
    /\ deficit_remaining = Zeros
    /\ outer_todo = {}
    /\ cur_i = 0
    /\ inner_todo = {}
    /\ results = NoResults
    /\ error = "none"
    /\ period = NoPeriod
    /\ period_results = NoResults

\* no operation of the mechanism is in progress
Quiescent == pc = "idle" /\ ~period.active

\* set_trading_network(adjacency_matrix)
SetTradingNetwork(m) ==
    /\ Quiescent
    /\ call' = [op |-> "set_trading_network", adjacency_matrix |-> m]
    /\ pc' = "idle"
    /\ results' = NoResults
    /\ trading_matrix' = ZeroMatrix
    /\ surplus_remaining' = Zeros
    /\ deficit_remaining' = Zeros
    /\ outer_todo' = {}
    /\ cur_i' = 0
    /\ inner_todo' = {}
    /\ IF ShapeMatches(m)
       THEN /\ trading_allowed' = StoredAdjacency(m)
            /\ error' = "none"
       ELSE /\ trading_allowed' = trading_allowed
            /\ error' = "ValueError"
    /\ UNCHANGED trading_efficiency
    /\ UNCHANGED << period_vars, opt_vars >>

\* optimize_trading_flows, lines 86-100: entry, the price test and the copies
BeginFlows(surplus, deficit, prices) ==
    /\ call' = [ op |-> "optimize_trading_flows", surplus |-> surplus, deficit |-> deficit,
                 community_price |-> prices[1], grid_export_price |-> prices[2],
                 grid_import_price |-> prices[3] ]
    /\ error' = "none"
    /\ trading_matrix' = ZeroMatrix
    /\ cur_i' = 0
    /\ inner_todo' = {}
    /\ IF TradingBeneficial(prices[1], prices[2], prices[3])
       THEN /\ surplus_remaining' = surplus
            /\ deficit_remaining' = deficit
            /\ outer_todo' = Buildings
            /\ pc' = "outer"
            /\ results' = NoResults
       ELSE /\ surplus_remaining' = Zeros
            /\ deficit_remaining' = Zeros
            /\ outer_todo' = {}
            /\ pc' = "done"
            /\ results' = MakeResults(surplus, deficit, ZeroMatrix)
    /\ UNCHANGED << trading_efficiency, trading_allowed >>

OptimizeTradingFlows ==
    /\ Quiescent
    /\ UNCHANGED << period_vars, opt_vars >>
    /\ \E kinds \in [Buildings -> BuildingKinds], prices \in PriceTriples :
          BeginFlows([i \in Buildings |-> kinds[i][1]],
                     [i \in Buildings |-> kinds[i][2]], prices)

\* optimize_trading_flows called with measured amounts
OptimizeMeasuredFlows ==
    /\ Quiescent
    /\ UNCHANGED << period_vars, opt_vars >>
    /\ \E kinds \in [Buildings -> MeasuredKinds], prices \in PriceTriples :
          BeginFlows([i \in Buildings |-> kinds[i][1]],
                     [i \in Buildings |-> kinds[i][2]], prices)

\* np.argsort(-surplus_remaining): the next index of surplus_order is an unvisited
\* building of greatest surplus; the order among equal keys is not specified.
NextInOrder(todo, key) == { i \in todo : \A k \in todo : key[k] <= key[i] }

\* the pass working on the caller's arrays themselves
CallerArrayAliased(argument, remaining) == remaining

\* lines 96-97: surplus.copy() and deficit.copy(); the debits of lines 128-129 go
\* to the copies and the arrays of the caller stay as they were passed
CallerArray(argument, remaining) == argument

\* an order of the candidates by the deficit they had at the start of the pass
DeficitOrderKeyOriginal(deficit, deficit_rem) == deficit

\* line 116: np.argsort(-deficit_remaining[available_traders]) sorts the candidates
\* by what is left of their deficit
DeficitOrderKey(deficit, deficit_rem) == deficit_rem

\* for i in surplus_order: lines 102-116
OuterLoop ==
    /\ pc = "outer"
    /\ outer_todo # {}
    /\ \E i \in NextInOrder(outer_todo, call.surplus) :
          LET available == AvailableTraders(i, deficit_remaining, trading_allowed)
          IN  /\ outer_todo' = outer_todo \ {i}
              /\ IF surplus_remaining[i] <= 0 \/ available = {}
                 THEN /\ pc' = "outer"
                      /\ UNCHANGED << cur_i, inner_todo >>
                 ELSE /\ pc' = "inner"
                      /\ cur_i' = i
                      /\ inner_todo' = available
    /\ UNCHANGED << trading_efficiency, trading_allowed, call, trading_matrix,
                    surplus_remaining, deficit_remaining, results, error >>
    /\ UNCHANGED << period_vars, opt_vars >>

\* for j in deficit_order: lines 118-129
InnerLoop ==
    /\ pc = "inner"
    /\ inner_todo # {}
    /\ surplus_remaining[cur_i] > 0
    /\ \E j \in NextInOrder(inner_todo, DeficitOrderKey(call.deficit, deficit_remaining)) :
          LET trade_amount == TradeAmount(surplus_remaining[cur_i], deficit_remaining[j],
                                          trading_efficiency)
          IN  /\ inner_todo' = inner_todo \ {j}
              /\ IF TradeAccepted(trade_amount)
                 THEN /\ trading_matrix' =
                            [trading_matrix EXCEPT ![cur_i][j] = trade_amount]
                      /\ surplus_remaining' =
                            [surplus_remaining EXCEPT
                               ![cur_i] = SurplusAfterTrade(@, trade_amount,
                                                            trading_efficiency)]
                      /\ deficit_remaining' =
                            [deficit_remaining EXCEPT
                               ![j] = DeficitAfterTrade(@, trade_amount)]
                 ELSE UNCHANGED << trading_matrix, surplus_remaining, deficit_remaining >>
    /\ call' = [ call EXCEPT !.surplus = CallerArray(@, surplus_remaining'),
                             !.deficit = CallerArray(@, deficit_remaining') ]
    /\ UNCHANGED << trading_efficiency, trading_allowed, pc, outer_todo, cur_i,
                    results, error >>
    /\ UNCHANGED << period_vars, opt_vars >>

\* the inner loop ends: deficit_order is exhausted, or "break" at line 120
InnerLoopExit ==
    /\ pc = "inner"
    /\ inner_todo = {} \/ surplus_remaining[cur_i] <= 0
    /\ pc' = "outer"
    /\ inner_todo' = {}
    /\ UNCHANGED << trading_efficiency, trading_allowed, call, trading_matrix,
                    surplus_remaining, deficit_remaining, outer_todo, cur_i, results, error >>
    /\ UNCHANGED << period_vars, opt_vars >>

\* the outer loop ends: lines 131-145
FinishFlows ==
    /\ pc = "outer"
    /\ outer_todo = {}
    /\ pc' = "done"
    /\ results' = MakeResults(call.surplus, call.deficit, trading_matrix)
    /\ UNCHANGED << trading_efficiency, trading_allowed, call, trading_matrix,
                    surplus_remaining, deficit_remaining, outer_todo, cur_i, inner_todo,
                    error >>
    /\ UNCHANGED << period_vars, opt_vars >>

\* "return results" (line 145): the dictionary goes to the caller, the locals are dropped
ReturnFlows ==
    /\ pc = "done"
    /\ ~period.active
    /\ pc' = "idle"
    /\ call' = NoCall
    /\ results' = NoResults
    /\ trading_matrix' = ZeroMatrix
    /\ surplus_remaining' = Zeros
    /\ deficit_remaining' = Zeros
    /\ outer_todo' = {}
    /\ cur_i' = 0
    /\ inner_todo' = {}
    /\ UNCHANGED << trading_efficiency, trading_allowed, error >>
    /\ UNCHANGED << period_vars, opt_vars >>

SetNetwork == \E m \in AdjacencyInputs : SetTradingNetwork(m)

\* ------------------------------------------------ simulate_trading_period
\* a potential whose deficit is the magnitude of the net generation
TradingPotentialMagnitude(generation, demand) ==
    LET net_generation == [i \in Buildings |-> generation[i] - demand[i]]
    IN  << [i \in Buildings |-> Max(net_generation[i], 0)],
           [i \in Buildings |-> Max(0 - net_generation[i], net_generation[i])] >>

\* calculate_trading_potential: (surplus, deficit) of the buildings
TradingPotential(generation, demand) ==
    LET net_generation == [i \in Buildings |-> generation[i] - demand[i]]
    IN  << [i \in Buildings |-> Max(net_generation[i], 0)],
           [i \in Buildings |-> Max(0 - net_generation[i], 0)] >>

\* calculate_trading_costs: costs['net_cost']
NetCost(trading_results, community_price, grid_export_price, grid_import_price) ==
    [i \in Buildings |->
        LET community_export_revenue == trading_results.community_exports[i] * community_price
            community_import_cost == trading_results.community_imports[i] * community_price
            grid_export_revenue == trading_results.grid_exports[i] * grid_export_price
            grid_import_cost == trading_results.grid_imports[i] * grid_import_price
        IN  community_import_cost + grid_import_cost
               - community_export_revenue - grid_export_revenue]

\* a self-sufficiency that is 0 when there is no demand
SelfSufficiencyZeroWhenNoDemand(generation, demand, grid_imports) ==
    LET total_demand == SeriesSum(demand)
        total_grid_imports == SeriesSum(grid_imports)
    IN  IF total_demand > 0
        THEN Fraction(total_demand - total_grid_imports, total_demand)
        ELSE << 0, 1 >>

\* _calculate_self_sufficiency: 1.0 - total_grid_imports / total_demand, as a fraction
SelfSufficiency(generation, demand, grid_imports) ==
    LET total_demand == SeriesSum(demand)
        total_grid_imports == SeriesSum(grid_imports)
    IN  IF total_demand > 0
        THEN LET q == Fraction(total_grid_imports, total_demand)
             IN  << q[2] - q[1], q[2] >>
        ELSE << 1, 1 >>

\* simulate_trading_period, lines 215-224: entry and the result arrays
SimulateTradingPeriod ==
    /\ Quiescent
    /\ \E kinds \in [Buildings -> BuildingProfiles], prices \in PriceProfiles :
          period' =
             [ active               |-> TRUE,
               generation_profiles  |-> [i \in Buildings |-> [t \in Steps |-> ProfileCell(kinds[i], t)[1]]],
               demand_profiles      |-> [i \in Buildings |-> [t \in Steps |-> ProfileCell(kinds[i], t)[2]]],
               community_prices     |-> [t \in Steps |-> PriceAt(prices, t)[1]],
               export_prices        |-> [t \in Steps |-> PriceAt(prices, t)[2]],
               import_prices        |-> [t \in Steps |-> PriceAt(prices, t)[3]],
               t                    |-> 0,
               trading_matrices     |-> [t \in Steps |-> ZeroMatrix],
               community_exports    |-> ZeroSeries,
               community_imports    |-> ZeroSeries,
               grid_exports         |-> ZeroSeries,
               grid_imports         |-> ZeroSeries,
               total_costs          |-> ZeroSeries ]
    /\ period_results' = NoResults
    /\ UNCHANGED << matcher_vars, opt_vars >>

\* for t in range(time_steps), lines 227-241: the potential and the call of the matcher
PeriodStep ==
    /\ period.active
    /\ pc = "idle"
    /\ period.t < time_steps
    /\ LET potential == TradingPotential(Column(period.generation_profiles, period.t),
                                         Column(period.demand_profiles, period.t))
       IN  BeginFlows(potential[1], potential[2],
                      << period.community_prices[period.t], period.export_prices[period.t],
                         period.import_prices[period.t] >>)
    /\ UNCHANGED << period_vars, opt_vars >>

\* lines 243-258: the results of step t are stored and its costs calculated
PeriodStore ==
    /\ period.active
    /\ pc = "done"
    /\ LET t == period.t
           costs == NetCost(results, period.community_prices[t], period.export_prices[t],
                            period.import_prices[t])
       IN  period' =
              [ period EXCEPT
                  !.trading_matrices[t] = results.trading_matrix,
                  !.community_exports = WithColumn(@, t, results.community_exports),
                  !.community_imports = WithColumn(@, t, results.community_imports),
                  !.grid_exports = WithColumn(@, t, results.grid_exports),
                  !.grid_imports = WithColumn(@, t, results.grid_imports),
                  !.total_costs = WithColumn(@, t, costs),
                  !.t = t + 1 ]
    /\ pc' = "idle"
    /\ call' = NoCall
    /\ results' = NoResults
    /\ trading_matrix' = ZeroMatrix
    /\ surplus_remaining' = Zeros
    /\ deficit_remaining' = Zeros
    /\ outer_todo' = {}
    /\ cur_i' = 0
    /\ inner_todo' = {}
    /\ UNCHANGED << trading_efficiency, trading_allowed, error, period_results, opt_vars >>

\* lines 260-278: the aggregate results
PeriodFinish ==
    /\ period.active
    /\ pc = "idle"
    /\ period.t = time_steps
    /\ period_results = NoResults
    /\ period_results' =
          [ status                 |-> "returned",
            trading_matrices       |-> period.trading_matrices,
            community_exports      |-> period.community_exports,
            community_imports      |-> period.community_imports,
            grid_exports           |-> period.grid_exports,
            grid_imports           |-> period.grid_imports,
            individual_costs       |-> period.total_costs,
            total_community_cost   |-> SeriesSum(period.total_costs),
            total_energy_traded    |->
               SumOver([t \in Steps |->
                          SumOver([i \in Buildings |-> RowSum(period.trading_matrices[t], i)],
                                  Buildings)], Steps),
            self_sufficiency_ratio |->
               SelfSufficiency(period.generation_profiles, period.demand_profiles,
                               period.grid_imports) ]
    /\ UNCHANGED << matcher_vars, period, opt_vars >>

\* "return results" (line 280)
PeriodReturn ==
    /\ period.active
    /\ period_results # NoResults
    /\ period' = NoPeriod
    /\ period_results' = NoResults
    /\ UNCHANGED << matcher_vars, opt_vars >>

\* the networks installed before a period
PeriodAdjacencyInputs == { MakeMatrix("line", <<num_buildings, num_buildings>>) }

SetNetworkForPeriod == \E m \in PeriodAdjacencyInputs : SetTradingNetwork(m)

\* ------------------------------------------- ProsumerCommunityOptimizer
OptBuildings == 0 .. (opt_num_buildings - 1)

Horizon == 0 .. (time_horizon - 1)

\* efficiency_charge and efficiency_discharge the optimizer is constructed with
OptEfficiencies == { [ch |-> <<1, 1>>, dis |-> <<1, 1>>], [ch |-> <<1, 2>>, dis |-> <<1, 2>>] }

\* The data of one building: demand, PV, battery specification, load flexibility
BuildingData(kind) ==
    CASE kind = "load" ->
           [ demand |-> [t \in Horizon |-> 1], pv |-> [t \in Horizon |-> 0],
             min_load |-> [t \in Horizon |-> 1], max_load |-> [t \in Horizon |-> 1],
             max_energy |-> 0, max_power |-> 0, initial_soc |-> 0, final_soc_min |-> 0 ]
      [] kind = "solar" ->
           [ demand |-> [t \in Horizon |-> 0],
             pv |-> [t \in Horizon |-> IF t % 2 = 0 THEN 1 ELSE 0],
             min_load |-> [t \in Horizon |-> 0], max_load |-> [t \in Horizon |-> 0],
             max_energy |-> 0, max_power |-> 0, initial_soc |-> 0, final_soc_min |-> 0 ]
      [] kind = "storage" ->
           [ demand |-> [t \in Horizon |-> 0],
             pv |-> [t \in Horizon |-> 0],
             min_load |-> [t \in Horizon |-> 0], max_load |-> [t \in Horizon |-> 1],
             max_energy |-> 2, max_power |-> 2, initial_soc |-> 2, final_soc_min |-> 1 ]
      [] kind = "inverted" ->
           [ demand |-> [t \in Horizon |-> 1], pv |-> [t \in Horizon |-> 0],
             min_load |-> [t \in Horizon |-> 1], max_load |-> [t \in Horizon |-> 0],
             max_energy |-> 0, max_power |-> 0, initial_soc |-> 0, final_soc_min |-> 0 ]

BuildingDataKinds == { "load", "solar", "storage", "inverted" }

\* the communities of the scenarios: a kind for every building, at most
\* max_batteries of them with a battery
Communities ==
    { kinds \in [OptBuildings -> BuildingDataKinds] :
         Cardinality({ i \in OptBuildings : kinds[i] = "storage" }) <= max_batteries }

\* number of rows of the pv_generation array given to setup_problem
PvRowCounts == { opt_num_buildings - 1, opt_num_buildings }

\* (import, export, community) price vectors of a scenario
ScenarioPrices ==
    { [ import |-> [t \in Horizon |-> 4], export |-> [t \in Horizon |-> 2],
        community |-> [t \in Horizon |-> 3] ],
      [ import |-> [t \in Horizon |-> 3], export |-> [t \in Horizon |-> 3],
        community |-> [t \in Horizon |-> 3] ],
      [ import |-> [t \in Horizon |-> 2], export |-> [t \in Horizon |-> 3],
        community |-> [t \in Horizon |-> 2] ] }

\* the values the solver may give to the variables of one cell (i, t)
FlowGrid == 0 .. 1

ChargeGrid == { 0, 2 }

DischargeGrid == { 0, 1 }

SocGrid == (0 - 1) .. 3

LoadGrid == (0 - 1) .. 2

NoScenario == [status |-> "none"]

NoMetrics == [status |-> "none"]

NoProblem == [status |-> "none"]

NoCosts == << >>

NoAttribution == [status |-> "none"]

NoRecord == [status |-> "none"]

NoOther == [pc |-> "none"]

NoBatch == [active |-> FALSE]

NoBenchmark == [status |-> "none"]

\* _setup_variables: a value for every entry of the seven variables
Unassigned ==
    [ v \in {"G_down", "G_up", "E_comm", "B_up", "B_down", "SOC", "L"} |->
         [i \in OptBuildings |-> [t \in Horizon |-> 0]] ]

\* cells in the order the solver assigns them: building by building, step by step
CellBuilding(n) == n \div time_horizon

CellStep(n) == n % time_horizon

\* "nonneg=True" of the seven variables at cell (i, t)
NonNegative(x, i, t) ==
    \A v \in DOMAIN x : x[v][i][t] >= 0

\* an energy balance that lets served load fall short of the supply
EnergyBalanceWithSlack(x, sc, i, t) ==
    x.L[i][t] <= sc.pv_generation[i][t] + x.G_down[i][t] + x.B_down[i][t]
                    - x.G_up[i][t] - x.B_up[i][t]

\* 1. the energy balance constraint of cell (i, t)
EnergyBalance(x, sc, i, t) ==
    x.L[i][t] = sc.pv_generation[i][t] + x.G_down[i][t] + x.B_down[i][t]
                   - x.G_up[i][t] - x.B_up[i][t]

\* battery limits without the capacity limit of the state of charge
BatteryLimitsPowerOnly(x, sc, i, t) ==
    /\ x.B_up[i][t] <= sc.battery_specs.max_power[i]
    /\ x.B_down[i][t] <= sc.battery_specs.max_power[i]

\* 2. battery capacity limits of building i at step t
BatteryLimits(x, sc, i, t) ==
    /\ x.SOC[i][t] <= sc.battery_specs.max_energy[i]
    /\ x.B_up[i][t] <= sc.battery_specs.max_power[i]
    /\ x.B_down[i][t] <= sc.battery_specs.max_power[i]

\* 2. battery state evolution from step t to t + 1:
\*    SOC[i,t+1] == SOC[i,t] + eta_ch * B_up[i,t] - B_down[i,t] / eta_dis,
\*    multiplied by the denominator of eta_ch and the numerator of eta_dis
SocEvolution(x, e, i, t) ==
    x.SOC[i][t + 1] * e.ch[2] * e.dis[1] =
        x.SOC[i][t] * e.ch[2] * e.dis[1]
           + e.ch[1] * e.dis[1] * x.B_up[i][t]
           - e.dis[2] * e.ch[2] * x.B_down[i][t]

\* 2. initial and final SOC constraints of building i
SocInitial(x, sc, i) == x.SOC[i][0] = sc.battery_specs.initial_soc[i]

SocFinal(x, sc, i) == x.SOC[i][time_horizon - 1] >= sc.battery_specs.final_soc_min[i]

\* 3. load flexibility of building i at step t
LoadBounds(x, sc, i, t) ==
    /\ x.L[i][t] >= sc.load_flexibility.min_load[i][t]
    /\ x.L[i][t] <= sc.load_flexibility.max_load[i][t]

\* 3. the sums over the horizon: cp.sum(L[i, :]) within 0.9 * sum(min_load) and
\*    1.1 * sum(max_load), multiplied by 10
LoadSums(x, sc, i) ==
    /\ 10 * SumOver(x.L[i], Horizon) >= 9 * SumOver(sc.load_flexibility.min_load[i], Horizon)
    /\ 10 * SumOver(x.L[i], Horizon) <= 11 * SumOver(sc.load_flexibility.max_load[i], Horizon)

\* community exports limited by the exports of all buildings together
CommunityWithinTotalExport(x, i, t) ==
    x.E_comm[i][t] <= SumOver([j \in OptBuildings |-> x.G_up[j][t]], OptBuildings)

\* 4. E_comm[i, t] <= G_up[i, t]
CommunityWithinExport(x, i, t) == x.E_comm[i][t] <= x.G_up[i][t]

\* 4. cp.sum(E_comm[:, t]) <= cp.sum(G_down[:, t])
CommunityWithinImports(x, t) ==
    SumOver([i \in OptBuildings |-> x.E_comm[i][t]], OptBuildings)
       <= SumOver([i \in OptBuildings |-> x.G_down[i][t]], OptBuildings)

\* the constraints of setup_problem that mention building i only
BuildingConstraints(x, sc, e, i) ==
    /\ \A t \in Horizon :
          /\ NonNegative(x, i, t)
          /\ EnergyBalance(x, sc, i, t)
          /\ BatteryLimits(x, sc, i, t)
          /\ LoadBounds(x, sc, i, t)
          /\ CommunityWithinExport(x, i, t)
    /\ \A t \in 0 .. (time_horizon - 2) : SocEvolution(x, e, i, t)
    /\ SocInitial(x, sc, i)
    /\ SocFinal(x, sc, i)
    /\ LoadSums(x, sc, i)

\* x satisfies every constraint of the problem setup_problem builds
Feasible(x, sc, e) ==
    /\ \A i \in OptBuildings : BuildingConstraints(x, sc, e, i)
    /\ \A t \in Horizon : CommunityWithinImports(x, t)

\* the constraints that are decided once cell (i, t) has its values, the cells
\* before it in the order having theirs
DecidedAt(x, sc, e, i, t) ==
    /\ NonNegative(x, i, t)
    /\ EnergyBalance(x, sc, i, t)
    /\ BatteryLimits(x, sc, i, t)
    /\ LoadBounds(x, sc, i, t)
    /\ CommunityWithinExport(x, i, t)
    /\ t > 0 => SocEvolution(x, e, i, t - 1)
    /\ t = 0 => SocInitial(x, sc, i)
    /\ t = time_horizon - 1 => (SocFinal(x, sc, i) /\ LoadSums(x, sc, i))
    /\ i = opt_num_buildings - 1 => CommunityWithinImports(x, t)

\* an objective whose grid export revenue counts the community exports again
TotalCostExportsCountedTwice(x, sc) ==
    SumOver([t \in Horizon |->
               sc.import_prices[t] * SumOver([i \in OptBuildings |-> x.G_down[i][t]], OptBuildings)
                  - sc.community_prices[t] * SumOver([i \in OptBuildings |-> x.E_comm[i][t]], OptBuildings)
                  - sc.export_prices[t] * SumOver([i \in OptBuildings |-> x.G_up[i][t]], OptBuildings)],
            Horizon)

\* the objective of setup_problem at x
TotalCost(x, sc) ==
    SumOver([t \in Horizon |->
               LET import_cost ==
                      sc.import_prices[t] * SumOver([i \in OptBuildings |-> x.G_down[i][t]], OptBuildings)
                   community_revenue ==
                      sc.community_prices[t] * SumOver([i \in OptBuildings |-> x.E_comm[i][t]], OptBuildings)
                   grid_export_revenue ==
                      sc.export_prices[t]
                         * SumOver([i \in OptBuildings |-> x.G_up[i][t] - x.E_comm[i][t]], OptBuildings)
               IN  import_cost - community_revenue - grid_export_revenue],
            Horizon)

OptInit ==
    /\ eta \in OptEfficiencies
    /\ scenario = NoScenario
    /\ opc = "new"
    /\ sol = Unassigned
    /\ next_cell = 0
    /\ optimization_results = NoResults
    /\ energy_metrics = NoMetrics
    /\ problem = NoProblem
    /\ individual_costs = NoCosts
    /\ attributed = NoAttribution
    /\ record = NoRecord
    /\ other = NoOther
    /\ batch = NoBatch
    /\ benchmark_results = NoBenchmark

\* the community price vector used whatever with_p2p is
CommunityPricesAsGiven(with_p2p, community_prices, export_prices) == community_prices

\* run_single_scenario, lines 78 and 96: community_prices if with_p2p else export_prices
EffectiveCommunityPrices(with_p2p, community_prices, export_prices) ==
    IF with_p2p THEN community_prices ELSE export_prices

\* the data of initialize() and the arguments run_single_scenario gives to
\* setup_problem; community_arg is the community_prices argument of
\* run_single_scenario itself
ScenarioOf(kinds, prices, with_p2p, pv_rows) ==
    [ status           |-> "built",
      load_profiles    |-> [i \in OptBuildings |-> BuildingData(kinds[i]).demand],
      pv_generation    |-> [i \in OptBuildings |-> BuildingData(kinds[i]).pv],
      pv_rows          |-> pv_rows,
      battery_specs    |->
         [ max_energy    |-> [i \in OptBuildings |-> BuildingData(kinds[i]).max_energy],
           max_power     |-> [i \in OptBuildings |-> BuildingData(kinds[i]).max_power],
           initial_soc   |-> [i \in OptBuildings |-> BuildingData(kinds[i]).initial_soc],
           final_soc_min |-> [i \in OptBuildings |-> BuildingData(kinds[i]).final_soc_min] ],
      load_flexibility |->
         [ min_load |-> [i \in OptBuildings |-> BuildingData(kinds[i]).min_load],
           max_load |-> [i \in OptBuildings |-> BuildingData(kinds[i]).max_load] ],
      import_prices    |-> prices.import,
      export_prices    |-> prices.export,
      community_prices |->
         EffectiveCommunityPrices(with_p2p, prices.community, prices.export),
      community_arg    |-> prices.community,
      with_p2p         |-> with_p2p ]

\* setup_problem, line 84: pv_generation[i, t] is indexed for every building of
\* the optimizer; an array with fewer rows raises IndexError
SetupRaises(sc) == sc.pv_rows < opt_num_buildings

\* run_single_scenario, lines 69-81: the data of initialize() and setup_problem;
\* an exception of setup_problem is caught at line 127
StartRun(sc) ==
    /\ scenario' = sc
    /\ IF SetupRaises(sc)
       THEN /\ opc' = "returned"
            /\ record' = [status |-> "error", error |-> "IndexError"]
       ELSE /\ opc' = "built"
            /\ record' = NoRecord
    /\ problem' = NoProblem

\* a call of run_single_scenario with data and arguments of its caller's choice
RunSingleScenario ==
    /\ opc = "new"
    /\ ~batch.active
    /\ \E kinds \in Communities, prices \in ScenarioPrices,
          with_p2p \in BOOLEAN, pv_rows \in PvRowCounts :
          StartRun(ScenarioOf(kinds, prices, with_p2p, pv_rows))
    /\ UNCHANGED << eta, sol, next_cell, optimization_results, energy_metrics,
                    individual_costs, attributed, other, batch_vars, matcher_vars, period_vars >>

\* run_single_scenario, line 83, and solve, line 155: problem.solve starts the
\* solver, which computes the values of the variables from scratch. The runs of
\* the solver for two problems of the optimizer are taken one after the other,
\* and the values are read when no run is under way: a run changes the values
\* of the variables only when it ends.
Solve ==
    /\ opc = "built"
    /\ other.pc # "solving"
    /\ opc' = "solving"
    /\ sol' = Unassigned
    /\ next_cell' = 0
    /\ UNCHANGED << eta, scenario, optimization_results, energy_metrics, problem,
                    individual_costs, attributed, record, other, batch_vars, matcher_vars, period_vars >>

\* the solver gives the next cell values that keep every decided constraint of
\* the problem built from sc
AssignCell(sc) ==
    LET i == CellBuilding(next_cell)
        t == CellStep(next_cell)
    IN  \E g_down \in FlowGrid, g_up \in FlowGrid, e_comm \in FlowGrid,
           b_up \in ChargeGrid, b_down \in DischargeGrid :
           LET flows == [ sol EXCEPT !.G_down[i][t] = g_down, !.G_up[i][t] = g_up,
                                     !.E_comm[i][t] = e_comm, !.B_up[i][t] = b_up,
                                     !.B_down[i][t] = b_down ]
           IN  /\ CommunityWithinExport(flows, i, t)
               /\ \E l \in LoadGrid :
                     /\ EnergyBalance([flows EXCEPT !.L[i][t] = l], sc, i, t)
                     /\ \E soc \in SocGrid :
                           LET x == [ flows EXCEPT !.L[i][t] = l, !.SOC[i][t] = soc ]
                           IN  /\ DecidedAt(x, sc, eta, i, t)
                               /\ sol' = x

\* problem.solve: the solver gives the next cell values that keep every decided
\* constraint of the problem
SolverAssign ==
    /\ opc = "solving"
    /\ next_cell < opt_num_buildings * time_horizon
    /\ AssignCell(scenario)
    /\ next_cell' = next_cell + 1
    /\ UNCHANGED << eta, scenario, opc, optimization_results, energy_metrics, problem,
                    individual_costs, attributed, record, other, batch_vars, matcher_vars, period_vars >>

\* exporting at a price above the import price: importing and exporting one
\* more unit at such a step keeps every constraint and lowers the objective
Arbitrage(sc) == \E t \in Horizon : sc.export_prices[t] > sc.import_prices[t]

\* no served load satisfies L >= min_load and L <= max_load at some cell
BoundsInverted(sc) ==
    \E i \in OptBuildings, t \in Horizon :
       sc.load_flexibility.min_load[i][t] > sc.load_flexibility.max_load[i][t]

\* the statuses cvxpy reports for a problem whose variables received values
ValueStatuses == { "optimal", "optimal_inaccurate" }

\* the values of the variables after a solve that found none
NoValues == [ v \in {"G_down", "G_up", "E_comm", "B_up", "B_down", "SOC", "L"} |-> "None" ]

\* problem.solve ends with values: problem.status and problem.value are set
ProblemSolved ==
    /\ opc = "solving"
    /\ next_cell = opt_num_buildings * time_horizon
    /\ ~Arbitrage(scenario)
    /\ \E st \in ValueStatuses :
          problem' = [status |-> st, value |-> TotalCost(sol, scenario)]
    /\ opc' = "unpacked"
    /\ UNCHANGED << eta, scenario, sol, next_cell, optimization_results, energy_metrics,
                    individual_costs, attributed, record, other, batch_vars, matcher_vars, period_vars >>

\* problem.solve ends with the status "infeasible": the variables have no value
SolverInfeasible ==
    /\ opc = "solving"
    /\ BoundsInverted(scenario)
    /\ problem' = [status |-> "infeasible", value |-> "inf"]
    /\ sol' = NoValues
    /\ opc' = "unpacked"
    /\ UNCHANGED << eta, scenario, next_cell, optimization_results, energy_metrics,
                    individual_costs, attributed, record, other, batch_vars, matcher_vars, period_vars >>

\* problem.solve ends with the status "unbounded": a feasible point exists and
\* the objective decreases without bound
SolverUnbounded ==
    /\ opc = "solving"
    /\ next_cell = opt_num_buildings * time_horizon
    /\ Arbitrage(scenario)
    /\ problem' = [status |-> "unbounded", value |-> "-inf"]
    /\ sol' = NoValues
    /\ opc' = "unpacked"
    /\ UNCHANGED << eta, scenario, next_cell, optimization_results, energy_metrics,
                    individual_costs, attributed, record, other, batch_vars, matcher_vars, period_vars >>

\* solve, lines 173-174: problem.solve raises, 'except Exception' returns; the
\* variables keep the values they had before the solve
SolverRaises ==
    /\ opc = "solving"
    /\ optimization_results' =
          [status |-> "error", error |-> "SolverError", objective_value |-> "None"]
    /\ sol' = Unassigned
    /\ next_cell' = 0
    /\ opc' = "solved"
    /\ UNCHANGED << eta, scenario, energy_metrics, problem,
                    individual_costs, attributed, record, other, batch_vars, matcher_vars, period_vars >>

\* a solve that reports an infeasible or unbounded problem as an error
SolveResultsInfeasibleAsError(pb, x) ==
    IF pb.status \notin {"infeasible", "unbounded"}
    THEN [ status            |-> pb.status,
           objective_value   |-> pb.value,
           grid_imports      |-> x.G_down,
           grid_exports      |-> x.G_up,
           community_trades  |-> x.E_comm,
           battery_charge    |-> x.B_up,
           battery_discharge |-> x.B_down,
           battery_soc       |-> x.SOC,
           flexible_load     |-> x.L ]
    ELSE [ status |-> "error", error |-> pb.status, objective_value |-> "None" ]

\* the dictionary solve builds at lines 157-171 from the status and value of the
\* problem and the values of the variables
SolveResults(pb, x) ==
    IF pb.status \notin {"infeasible", "unbounded"}
    THEN [ status            |-> pb.status,
           objective_value   |-> pb.value,
           grid_imports      |-> x.G_down,
           grid_exports      |-> x.G_up,
           community_trades  |-> x.E_comm,
           battery_charge    |-> x.B_up,
           battery_discharge |-> x.B_down,
           battery_soc       |-> x.SOC,
           flexible_load     |-> x.L ]
    ELSE [ status |-> pb.status, objective_value |-> "None" ]

\* solve, lines 157-171: the status of the problem and the values of the variables
SolveReturns ==
    /\ opc = "unpacked"
    /\ other.pc # "solving"
    /\ optimization_results' = SolveResults(problem, sol)
    /\ opc' = "solved"
    /\ UNCHANGED << eta, scenario, sol, next_cell, energy_metrics, problem,
                    individual_costs, attributed, record, other, batch_vars, matcher_vars, period_vars >>

\* run_single_scenario, lines 85-90: any status but 'optimal' is a failed scenario
ReturnFailed ==
    /\ opc = "solved"
    /\ optimization_results.status # "optimal"
    /\ record' = [status |-> "failed", error |-> optimization_results.status]
    /\ opc' = "returned"
    /\ UNCHANGED << eta, scenario, sol, next_cell, optimization_results, energy_metrics,
                    problem, individual_costs, attributed, other, batch_vars, matcher_vars, period_vars >>

\* np.sum(prices * a[i, :])
PricedSum(prices, row) == SumOver([t \in Horizon |-> prices[t] * row[t]], Horizon)

\* individual costs whose grid export revenue is paid on all exports
IndividualCostsGrossExports(res, import_prices, export_prices, community_prices) ==
    IF res.status = "optimal"
    THEN [ i \in OptBuildings |->
             PricedSum(import_prices, res.grid_imports[i])
                - PricedSum(community_prices, res.community_trades[i])
                - PricedSum(export_prices, res.grid_exports[i]) ]
    ELSE [ i \in OptBuildings |-> "nan" ]

\* individual costs that leave out the revenue of the community trades
IndividualCostsWithoutCommunity(res, import_prices, export_prices, community_prices) ==
    IF res.status = "optimal"
    THEN [ i \in OptBuildings |->
             LET import_cost == PricedSum(import_prices, res.grid_imports[i])
                 grid_exports ==
                    [t \in Horizon |-> res.grid_exports[i][t] - res.community_trades[i][t]]
                 grid_export_revenue == PricedSum(export_prices, grid_exports)
             IN  import_cost - grid_export_revenue ]
    ELSE [ i \in OptBuildings |-> "nan" ]

\* calculate_individual_costs, lines 193-211
IndividualCosts(res, import_prices, export_prices, community_prices) ==
    IF res.status = "optimal"
    THEN [ i \in OptBuildings |->
             LET import_cost == PricedSum(import_prices, res.grid_imports[i])
                 community_revenue == PricedSum(community_prices, res.community_trades[i])
                 grid_exports ==
                    [t \in Horizon |-> res.grid_exports[i][t] - res.community_trades[i][t]]
                 grid_export_revenue == PricedSum(export_prices, grid_exports)
             IN  import_cost - community_revenue - grid_export_revenue ]
    ELSE [ i \in OptBuildings |-> "nan" ]

\* a calculate_individual_costs that subtracts the community trades from
\* results['grid_exports'] in place
ResultsAfterCostsInPlace(res) ==
    IF res.status = "optimal"
    THEN [ res EXCEPT !.grid_exports =
              [ i \in OptBuildings |->
                  [t \in Horizon |-> res.grid_exports[i][t] - res.community_trades[i][t]] ] ]
    ELSE res

\* the results dictionary after calculate_individual_costs, lines 193-211: the
\* function assigns to its local names only
ResultsAfterCosts(res) == res

\* run_single_scenario, lines 92-97
CalculateIndividualCosts ==
    /\ opc = "solved"
    /\ optimization_results.status = "optimal"
    /\ individual_costs' =
          IndividualCosts(optimization_results, scenario.import_prices, scenario.export_prices,
                          EffectiveCommunityPrices(scenario.with_p2p, scenario.community_arg,
                                                   scenario.export_prices))
    /\ optimization_results' = ResultsAfterCosts(optimization_results)
    /\ opc' = "costed"
    /\ UNCHANGED << eta, scenario, sol, next_cell, energy_metrics, problem, attributed,
                    record, other, batch_vars, matcher_vars, period_vars >>

\* a direct call of calculate_individual_costs on the dictionary solve returned
AttributeCosts ==
    /\ opc = "returned"
    /\ optimization_results.status # "none"
    /\ \E prices \in ScenarioPrices :
          attributed' =
             [ status |-> "returned",
               prices |-> prices,
               costs  |-> IndividualCosts(optimization_results, prices.import, prices.export,
                                          prices.community) ]
    /\ optimization_results' = ResultsAfterCosts(optimization_results)
    /\ UNCHANGED << eta, scenario, opc, sol, next_cell, energy_metrics, problem,
                    individual_costs, record, other, batch_vars, matcher_vars, period_vars >>

\* np.sum over a [buildings x time_horizon] array of the optimizer
OptSum(a) == SumOver([i \in OptBuildings |-> SumOver(a[i], Horizon)], OptBuildings)

\* _calculate_energy_metrics: 'self_sufficiency_ratio', as a fraction
EnergySelfSufficiency(total_grid_imports, total_demand) ==
    IF total_demand > 0
    THEN LET q == Fraction(total_grid_imports, total_demand)
         IN  << q[2] - q[1], q[2] >>
    ELSE << 0, 1 >>

\* run_single_scenario, line 101: _calculate_energy_metrics(optimization_results)
CalculateEnergyMetrics ==
    /\ opc = "costed"
    /\ optimization_results.status = "optimal"
    /\ LET total_grid_imports == OptSum(optimization_results.grid_imports)
           total_grid_exports == OptSum(optimization_results.grid_exports)
           total_community_trades == OptSum(optimization_results.community_trades)
           total_demand == OptSum(scenario.load_flexibility.min_load)
           total_pv_generation == OptSum(scenario.pv_generation)
       IN  energy_metrics' =
              [ status                 |-> "returned",
                total_grid_imports     |-> total_grid_imports,
                total_grid_exports     |-> total_grid_exports,
                total_community_trades |-> total_community_trades,
                total_demand           |-> total_demand,
                total_pv_generation    |-> total_pv_generation,
                self_sufficiency_ratio |->
                   EnergySelfSufficiency(total_grid_imports, total_demand) ]
    /\ opc' = "reported"
    /\ UNCHANGED << eta, scenario, sol, next_cell, optimization_results, problem,
                    individual_costs, attributed, record, other, batch_vars, matcher_vars, period_vars >>

\* the dictionary run_single_scenario builds at lines 103-123
SuccessRecord(sc, res, costs, metrics) ==
    [ status               |-> "success",
      with_p2p             |-> sc.with_p2p,
      total_cost           |-> SumOver(costs, OptBuildings),
      individual_costs     |-> costs,
      energy_metrics       |-> metrics,
      optimization_results |->
         [ objective_value  |-> res.objective_value,
           grid_imports     |-> res.grid_imports,
           grid_exports     |-> res.grid_exports,
           community_trades |-> res.community_trades ],
      prices               |->
         [ import    |-> sc.import_prices,
           export    |-> sc.export_prices,
           community |-> sc.community_arg ] ]

\* run_single_scenario, lines 103-125
ReturnSuccess ==
    /\ opc = "reported"
    /\ record' = SuccessRecord(scenario, optimization_results, individual_costs, energy_metrics)
    /\ opc' = "returned"
    /\ UNCHANGED << eta, scenario, sol, next_cell, optimization_results, energy_metrics,
                    problem, individual_costs, attributed, other, batch_vars, matcher_vars, period_vars >>

\* ------------------------------- two problems built from the same optimizer
\* price vectors for which a problem with a feasible point has a bounded optimum
BoundedPrices ==
    { prices \in ScenarioPrices : \A t \in Horizon : prices.export[t] <= prices.import[t] }

\* the communities of the two problems: consumers and producers without battery
SharedCommunities == [OptBuildings -> {"load", "solar"}]

\* two calls of setup_problem on the same optimizer, with the same data and
\* different prices: both problems are built on self.G_down, ..., self.L
SetupTwoProblems ==
    /\ opc = "new"
    /\ other.pc = "none"
    /\ \E kinds \in SharedCommunities, first \in BoundedPrices, second \in BoundedPrices :
          /\ first # second
          /\ scenario' = ScenarioOf(kinds, first, TRUE, opt_num_buildings)
          /\ other' = [ pc       |-> "built",
                        scenario |-> ScenarioOf(kinds, second, TRUE, opt_num_buildings),
                        problem  |-> NoProblem,
                        results  |-> NoResults ]
    /\ opc' = "built"
    /\ problem' = NoProblem
    /\ record' = NoRecord
    /\ UNCHANGED << eta, sol, next_cell, optimization_results, energy_metrics,
                    individual_costs, attributed, batch_vars, matcher_vars, period_vars >>

\* solve of the second problem, line 155: problem.solve starts the solver
OtherSolve ==
    /\ other.pc = "built"
    /\ opc # "solving"
    /\ other' = [other EXCEPT !.pc = "solving"]
    /\ sol' = Unassigned
    /\ next_cell' = 0
    /\ UNCHANGED << eta, scenario, opc, optimization_results, energy_metrics, problem,
                    individual_costs, attributed, record, batch_vars, matcher_vars, period_vars >>

\* the solver run of the second problem
OtherSolverAssign ==
    /\ other.pc = "solving"
    /\ next_cell < opt_num_buildings * time_horizon
    /\ AssignCell(other.scenario)
    /\ next_cell' = next_cell + 1
    /\ UNCHANGED << eta, scenario, opc, optimization_results, energy_metrics, problem,
                    individual_costs, attributed, record, other, batch_vars, matcher_vars, period_vars >>

\* problem.solve of the second problem ends with values
OtherProblemSolved ==
    /\ other.pc = "solving"
    /\ next_cell = opt_num_buildings * time_horizon
    /\ \E st \in ValueStatuses :
          other' = [other EXCEPT !.pc = "unpacked",
                                 !.problem = [status |-> st,
                                              value  |-> TotalCost(sol, other.scenario)]]
    /\ UNCHANGED << eta, scenario, opc, sol, next_cell, optimization_results, energy_metrics,
                    problem, individual_costs, attributed, record, batch_vars, matcher_vars, period_vars >>

\* solve of the second problem, lines 157-171: the values are read from the
\* variables of the optimizer
OtherSolveReturns ==
    /\ other.pc = "unpacked"
    /\ opc # "solving"
    /\ other' = [other EXCEPT !.pc = "solved", !.results = SolveResults(other.problem, sol)]
    /\ UNCHANGED << eta, scenario, opc, sol, next_cell, optimization_results, energy_metrics,
                    problem, individual_costs, attributed, record, batch_vars, matcher_vars, period_vars >>

\* ------------------------------------------------ benchmark_tariff_scenarios
\* create_tariff_scenarios: the names of the scenarios of a benchmark
TariffScenarioNames == 1 .. num_scenarios

\* create_tariff_scenarios: the import prices of scenario j
TariffImport(j) == [t \in Horizon |-> 10 * (1 + ((j + t) % 2))]

\* TariffManager.get_export_prices: import_prices * export_ratio, with
\* export_ratio = 0.4
GetExportPrices(import_prices) == [t \in Horizon |-> (import_prices[t] * 4) \div 10]

\* TariffManager.get_community_prices: export_prices + community_spread *
\* (import_prices - export_prices), with community_spread = 0.5
GetCommunityPrices(import_prices, export_prices) ==
    [t \in Horizon |-> export_prices[t] + (import_prices[t] - export_prices[t]) \div 2]

\* the suffixes of the names under which the evaluations of one tariff scenario
\* are stored, in the order of the evaluations
Evaluations(include_p2p_comparison) ==
    IF include_p2p_comparison THEN << "_with_p2p", "_without_p2p" >> ELSE << "" >>

\* a benchmark that keeps the records of successful evaluations only
StoreRecordSuccessOnly(scenario_results, name, rec) ==
    IF rec.status = "success"
    THEN [ n \in DOMAIN scenario_results \cup {name} |->
             IF n = name THEN rec.status ELSE scenario_results[n] ]
    ELSE scenario_results

\* scenario_results[name] = record, lines 181, 187 and 193; the model keeps the status
\* of the record
StoreRecord(scenario_results, name, rec) ==
    [ n \in DOMAIN scenario_results \cup {name} |->
        IF n = name THEN rec.status ELSE scenario_results[n] ]

\* benchmark_tariff_scenarios, lines 158-170: initialize() loads the data of the
\* community and create_tariff_scenarios the tariff scenarios
BenchmarkTariffScenarios ==
    /\ opc = "new"
    /\ ~batch.active
    /\ benchmark_results = NoBenchmark
    /\ \E kinds \in Communities, pv_rows \in PvRowCounts, include_p2p_comparison \in BOOLEAN :
          batch' = [ active                 |-> TRUE,
                     include_p2p_comparison |-> include_p2p_comparison,
                     kinds                  |-> kinds,
                     pv_rows                |-> pv_rows,
                     next                   |-> 1,
                     evaluation             |-> 1,
                     scenario_results       |-> << >> ]
    /\ UNCHANGED << eta, scenario, opc, sol, next_cell, optimization_results, energy_metrics,
                    problem, individual_costs, attributed, record, other, benchmark_results,
                    matcher_vars, period_vars >>

\* the price arguments of the evaluation: the run without trading is given the
\* export prices as community prices (line 183)
EvaluationPrices(j, with_p2p) ==
    LET import_prices == TariffImport(j)
        export_prices == GetExportPrices(import_prices)
        community_prices == GetCommunityPrices(import_prices, export_prices)
    IN  [ import    |-> import_prices,
          export    |-> export_prices,
          community |-> IF with_p2p THEN community_prices ELSE export_prices ]

\* the with_p2p argument of the evaluation in progress
EvaluationWithP2P == Evaluations(batch.include_p2p_comparison)[batch.evaluation] # "_without_p2p"

\* benchmark_tariff_scenarios, lines 172-192: the next call of run_single_scenario
BenchmarkRun ==
    /\ opc = "new"
    /\ batch.active
    /\ batch.next <= num_scenarios
    /\ StartRun(ScenarioOf(batch.kinds, EvaluationPrices(batch.next, EvaluationWithP2P),
                           EvaluationWithP2P, batch.pv_rows))
    /\ UNCHANGED << eta, sol, next_cell, optimization_results, energy_metrics,
                    individual_costs, attributed, other, batch_vars, matcher_vars, period_vars >>

\* benchmark_tariff_scenarios, lines 181-193: the record is stored under the name
\* of the evaluation and the loop goes on
BenchmarkStore ==
    /\ opc = "returned"
    /\ batch.active
    /\ LET names == Evaluations(batch.include_p2p_comparison)
           last == batch.evaluation = Len(names)
       IN  batch' =
              [ batch EXCEPT
                  !.scenario_results =
                     StoreRecord(@, << batch.next, names[batch.evaluation] >>, record),
                  !.evaluation = IF last THEN 1 ELSE @ + 1,
                  !.next = IF last THEN @ + 1 ELSE @ ]
    /\ opc' = "new"
    /\ scenario' = NoScenario
    /\ optimization_results' = NoResults
    /\ energy_metrics' = NoMetrics
    /\ problem' = NoProblem
    /\ individual_costs' = NoCosts
    /\ record' = NoRecord
    /\ UNCHANGED << eta, sol, next_cell, attributed, other, benchmark_results,
                    matcher_vars, period_vars >>

\* the number of records of the scenario results with status 'success'
SuccessfulScenarios(scenario_results) ==
    Cardinality({ n \in DOMAIN scenario_results : scenario_results[n] = "success" })

\* benchmark_tariff_scenarios, lines 195-223
BenchmarkFinish ==
    /\ opc = "new"
    /\ batch.active
    /\ batch.next > num_scenarios
    /\ benchmark_results' =
          [ status               |-> "returned",
            scenario_results     |-> batch.scenario_results,
            successful_scenarios |-> SuccessfulScenarios(batch.scenario_results),
            total_scenarios      |-> Cardinality(DOMAIN batch.scenario_results),
            error                |->
               IF SuccessfulScenarios(batch.scenario_results) = 0
               THEN "No scenarios completed successfully"
               ELSE "none" ]
    /\ batch' = [batch EXCEPT !.active = FALSE]
    /\ UNCHANGED << eta, scenario, opc, sol, next_cell, optimization_results, energy_metrics,
                    problem, individual_costs, attributed, record, other,
                    matcher_vars, period_vars >>

Init == MatcherInit /\ OptInit

\* the orchestrator constructs the matcher with the default efficiency
InitOpt == MatcherInit /\ trading_efficiency = <<19, 20>> /\ OptInit

Next ==
    \/ SetNetwork
    \/ OptimizeTradingFlows
    \/ OuterLoop
    \/ InnerLoop
    \/ InnerLoopExit
    \/ FinishFlows
    \/ ReturnFlows

Spec == Init /\ [][Next]_vars

NextPeriod ==
    \/ SetNetworkForPeriod
    \/ SimulateTradingPeriod
    \/ PeriodStep
    \/ OuterLoop
    \/ InnerLoop
    \/ InnerLoopExit
    \/ FinishFlows
    \/ PeriodStore
    \/ PeriodFinish
    \/ PeriodReturn

SpecPeriod == Init /\ [][NextPeriod]_vars

NextMeasured ==
    \/ SetNetwork
    \/ OptimizeMeasuredFlows
    \/ OuterLoop
    \/ InnerLoop
    \/ InnerLoopExit
    \/ FinishFlows
    \/ ReturnFlows

SpecMeasured == Init /\ [][NextMeasured]_vars

NextOpt ==
    \/ RunSingleScenario
    \/ Solve
    \/ SolverAssign
    \/ ProblemSolved
    \/ SolverInfeasible
    \/ SolverUnbounded
    \/ SolverRaises
    \/ SolveReturns
    \/ ReturnFailed
    \/ CalculateIndividualCosts
    \/ AttributeCosts
    \/ CalculateEnergyMetrics
    \/ ReturnSuccess

SpecOpt == InitOpt /\ [][NextOpt]_vars

NextShared ==
    \/ SetupTwoProblems
    \/ Solve
    \/ SolverAssign
    \/ ProblemSolved
    \/ SolveReturns
    \/ OtherSolve
    \/ OtherSolverAssign
    \/ OtherProblemSolved
    \/ OtherSolveReturns

SpecShared == InitOpt /\ [][NextShared]_vars

NextBatch ==
    \/ BenchmarkTariffScenarios
    \/ BenchmarkRun
    \/ Solve
    \/ SolverAssign
    \/ ProblemSolved
    \/ SolverInfeasible
    \/ SolverRaises
    \/ SolveReturns
    \/ ReturnFailed
    \/ CalculateIndividualCosts
    \/ CalculateEnergyMetrics
    \/ ReturnSuccess
    \/ BenchmarkStore
    \/ BenchmarkFinish

SpecBatch == InitOpt /\ [][NextBatch]_vars

\* ------------------------------------------------ properties of the matcher
InFlows == call.op = "optimize_trading_flows"

\* the price test of the spec, on the arguments of the call in progress
SpreadNonPositive ==
    \/ call.community_price <= call.grid_export_price
    \/ call.grid_import_price <= call.community_price

\* the step of InnerLoop that visits j records a trade
Accepts(j) ==
    /\ pc = "inner"
    /\ j \in inner_todo
    /\ j \notin inner_todo'
    /\ trading_matrix'[cur_i][j] # trading_matrix[cur_i][j]

\* every multiplication and division by the efficiency in a pass is exact
ExactArithmetic ==
    [][\A j \in Buildings :
          Accepts(j) =>
             LET m == Min(surplus_remaining[cur_i], deficit_remaining[j])
             IN  /\ (m * trading_efficiency[1]) % trading_efficiency[2] = 0
                 /\ DivEff(trading_matrix'[cur_i][j], trading_efficiency) = m]_vars

\* C1: whenever community_price <= grid_export_price or grid_import_price <=
\* community_price, the trading matrix of optimize_trading_flows is all zeros,
\* whatever the surplus, the deficit and the adjacency are.
C1_ShortCircuit ==
    (InFlows /\ SpreadNonPositive) =>
        /\ trading_matrix = ZeroMatrix
        /\ pc = "done" => results.trading_matrix = ZeroMatrix

\* a call with community_price = grid_export_price returned although an adjacent
\* pair with surplus and deficit was there to trade
C1_Witness ==
    /\ InFlows
    /\ pc = "done"
    /\ call.community_price = call.grid_export_price
    /\ \E i, j \in Buildings :
          call.surplus[i] > 0 /\ call.deficit[j] > 0 /\ trading_allowed[i][j] = 1
    /\ results.trading_matrix = ZeroMatrix

\* C2 (as stated): when i trades with j and the deficit of j is the binding side
\* (remaining surplus of i >= remaining deficit of j), j is left with no residual
\* deficit (and so imports nothing from the grid).
C2_NoResidualDeficit ==
    [][\A j \in Buildings :
          (Accepts(j) /\ surplus_remaining[cur_i] >= deficit_remaining[j])
             => deficit_remaining'[j] = 0]_vars

\* C2 (amended): the trade delivers efficiency * (remaining deficit of j) and j
\* keeps the residual (1 - efficiency) * (remaining deficit of j); at the end of
\* the pass the grid import of every building is its remaining deficit, that is
\* its deficit less the trades it received.
C2_ResidualIsTransferLoss ==
    /\ [][\A j \in Buildings :
             (Accepts(j) /\ surplus_remaining[cur_i] >= deficit_remaining[j])
                => /\ trading_matrix'[cur_i][j] * trading_efficiency[2]
                         = deficit_remaining[j] * trading_efficiency[1]
                   /\ deficit_remaining'[j] * trading_efficiency[2]
                         = deficit_remaining[j] * (trading_efficiency[2] - trading_efficiency[1])
          ]_vars
    /\ [](( InFlows /\ pc = "done" /\ ~SpreadNonPositive ) =>
             \A j \in Buildings :
                /\ results.grid_imports[j] = deficit_remaining[j]
                /\ results.grid_imports[j] = call.deficit[j] - ColSum(trading_matrix, j))

\* the example of the spec: surplus [5,0,..], deficit [0,3,..], efficiency 0.95:
\* trade[0,1] = 2.85 and building 1 imports the residual 0.15
C2_Witness ==
    /\ InFlows
    /\ pc = "done"
    /\ trading_efficiency = <<19, 20>>
    /\ call.surplus[0] = 5 * UnitsPerKWh
    /\ call.deficit[1] = 3 * UnitsPerKWh
    /\ \A k \in Buildings \ {0, 1} : call.surplus[k] = 0 /\ call.deficit[k] = 0
    /\ results.trading_matrix[0][1] = 2850 * Milli
    /\ results.grid_imports[1] = 150 * Milli

\* C3: after the pass the grid export of every building i is the surplus left
\* once every accepted trade has debited trade / efficiency:
\* grid_exports[i] = surplus[i] - SUM_j trade[i,j] / efficiency.
C3_ExportIsResidualSurplus ==
    (InFlows /\ pc = "done") =>
        \A i \in Buildings :
           results.grid_exports[i] =
              call.surplus[i]
                 - SumOver([j \in Buildings |->
                              DivEff(results.trading_matrix[i][j], trading_efficiency)],
                           Buildings)

\* C4: trade[i,j] > 0 only if trading_allowed[i,j] = 1 and i # j, during and after
\* every pass, after construction and after any sequence of set_trading_network.
C4_TradesFollowAdjacency ==
    \A i, j \in Buildings :
       /\ trading_matrix[i][j] > 0 => (trading_allowed[i][j] = 1 /\ i # j)
       /\ (pc = "done" /\ results.trading_matrix[i][j] > 0)
             => (trading_allowed[i][j] = 1 /\ i # j)

\* a pass traded under an adjacency that set_trading_network installed, while a
\* pair with surplus and deficit that the adjacency does not join did not trade
C4_Witness ==
    /\ InFlows
    /\ pc = "done"
    /\ trading_allowed # InitialAdjacency
    /\ \E i, j \in Buildings : results.trading_matrix[i][j] > 0
    /\ \E i, j \in Buildings :
          /\ i # j
          /\ call.surplus[i] > 0
          /\ call.deficit[j] > 0
          /\ trading_allowed[i][j] # 1

\* C5: after construction and after every set_trading_network the stored
\* adjacency has an all-zero diagonal, whatever the supplied diagonal holds.
C5_ZeroDiagonal ==
    \A i \in Buildings : trading_allowed[i][i] = 0

\* set_trading_network stored a matrix whose diagonal was not zero
C5_Witness ==
    /\ call.op = "set_trading_network"
    /\ error = "none"
    /\ \A i \in Buildings : call.adjacency_matrix[i][i] # 0
    /\ \E i, j \in Buildings : i # j /\ trading_allowed[i][j] = call.adjacency_matrix[i][j]
                                      /\ trading_allowed[i][j] # 0
    /\ \A i \in Buildings : trading_allowed[i][i] = 0

\* C6: set_trading_network with a matrix whose shape is not (num_buildings,
\* num_buildings) raises and leaves the stored adjacency as it was.
C6_BadShapeRejected ==
    [][( /\ call'.op = "set_trading_network"
         /\ Shape(call'.adjacency_matrix) # <<num_buildings, num_buildings>> )
          => ( trading_allowed' = trading_allowed /\ error' = "ValueError" )]_vars

\* a matrix of the wrong shape was rejected and an adjacency installed earlier,
\* different from the supplied one, is still the stored one
C6_Witness ==
    /\ call.op = "set_trading_network"
    /\ Shape(call.adjacency_matrix) # <<num_buildings, num_buildings>>
    /\ error = "ValueError"
    /\ trading_allowed # InitialAdjacency
    /\ \E i, j \in Buildings : trading_allowed[i][j] # call.adjacency_matrix[i][j]

\* --------------------------------------- properties of the period simulation
PeriodReturned == period.active /\ period_results # NoResults

\* C7: simulate_trading_period reports self_sufficiency_ratio = 1 - (total grid
\* imports / total demand), summed over all buildings and timesteps, and exactly
\* 1.0 when the total demand is zero.
C7_SelfSufficiency ==
    PeriodReturned =>
        LET total_demand ==
               SumOver([t \in Steps |->
                          SumOver(Column(period.demand_profiles, t), Buildings)], Steps)
            total_imports ==
               SumOver([t \in Steps |->
                          SumOver(Column(period_results.grid_imports, t), Buildings)], Steps)
            ratio == period_results.self_sufficiency_ratio
        IN  IF total_demand = 0
            THEN ratio = << 1, 1 >>
            ELSE ratio = Fraction(total_demand - total_imports, total_demand)

\* a period with generation and no demand at all returned the ratio 1.0
C7_Witness ==
    /\ PeriodReturned
    /\ SeriesSum(period.demand_profiles) = 0
    /\ SeriesSum(period.generation_profiles) > 0
    /\ period_results.self_sufficiency_ratio = << 1, 1 >>

\* a period with demand, trades and grid imports returned a ratio strictly
\* between 0 and 1
C7_Reached ==
    /\ PeriodReturned
    /\ SeriesSum(period.demand_profiles) > 0
    /\ SeriesSum(period_results.grid_imports) > 0
    /\ period_results.total_energy_traded > 0
    /\ period_results.self_sufficiency_ratio[1] > 0
    /\ period_results.self_sufficiency_ratio[1] < period_results.self_sufficiency_ratio[2]

\* ------------------------------------------------ properties of the optimizer
\* solve returned a solution of the problem
Solved ==
    /\ opc \in {"solved", "costed", "reported", "returned"}
    /\ optimization_results.status = "optimal"

\* every solution the solver returns satisfies the constraints of setup_problem
ReturnedIsFeasible == Solved => Feasible(sol, scenario, eta)

\* C8: for a scenario whose total demand is zero, the energy metrics of the
\* optimizer path give self_sufficiency_ratio = 1.0.
C8_ZeroDemandSelfSufficient ==
    (opc = "reported" /\ OptSum(scenario.load_profiles) = 0)
       => energy_metrics.self_sufficiency_ratio = << 1, 1 >>

\* C9: in every feasible solution, for all i and t, 0 <= battery_soc[i,t] <=
\* max_energy[i], battery_soc[i,0] = initial_soc[i] and battery_soc[i,T-1] >=
\* final_soc_min[i].
C9_SocWithinBattery ==
    Solved =>
       \A i \in OptBuildings :
          /\ \A t \in Horizon :
                /\ 0 <= optimization_results.battery_soc[i][t]
                /\ optimization_results.battery_soc[i][t] <= scenario.battery_specs.max_energy[i]
          /\ optimization_results.battery_soc[i][0] = scenario.battery_specs.initial_soc[i]
          /\ optimization_results.battery_soc[i][time_horizon - 1]
                >= scenario.battery_specs.final_soc_min[i]

\* a solution in which a battery that starts full discharges and ends the
\* horizon at its minimum final state of charge
C9_Witness ==
    /\ Solved
    /\ \E i \in OptBuildings, t \in 0 .. (time_horizon - 2) :
          /\ scenario.battery_specs.final_soc_min[i] > 0
          /\ optimization_results.battery_discharge[i][t] > 0
          /\ optimization_results.battery_soc[i][0] = scenario.battery_specs.max_energy[i]
          /\ optimization_results.battery_soc[i][t + 1] < optimization_results.battery_soc[i][t]
          /\ optimization_results.battery_soc[i][time_horizon - 1]
                = scenario.battery_specs.final_soc_min[i]

\* C10: in every feasible solution the energy balance holds with equality at
\* every (i, t): served_load = generation + grid_import + battery_discharge
\* - grid_export - battery_charge.
C10_EnergyBalance ==
    Solved =>
       \A i \in OptBuildings, t \in Horizon :
          optimization_results.flexible_load[i][t] =
             scenario.pv_generation[i][t] + optimization_results.grid_imports[i][t]
                + optimization_results.battery_discharge[i][t]
                - optimization_results.grid_exports[i][t]
                - optimization_results.battery_charge[i][t]

\* a solution with a cell that imports, charges and discharges, and a cell that
\* generates and exports
C10_Witness ==
    /\ Solved
    /\ \E i \in OptBuildings, t \in Horizon :
          /\ optimization_results.grid_imports[i][t] > 0
          /\ optimization_results.battery_charge[i][t] > 0
          /\ optimization_results.battery_discharge[i][t] > 0
    /\ \E i \in OptBuildings, t \in Horizon :
          /\ scenario.pv_generation[i][t] > 0
          /\ optimization_results.grid_exports[i][t] > 0

\* the sum over the buildings of column t of a [buildings x time_horizon] array
StepSum(a, t) == SumOver([i \in OptBuildings |-> a[i][t]], OptBuildings)

\* C11: in every feasible solution community_export[i,t] <= grid_export[i,t]
\* for every i and t, and for every t the community export summed over the
\* buildings is at most the grid import summed over the buildings.
C11_CommunityExportLimits ==
    Solved =>
       /\ \A i \in OptBuildings, t \in Horizon :
             optimization_results.community_trades[i][t]
                <= optimization_results.grid_exports[i][t]
       /\ \A t \in Horizon :
             StepSum(optimization_results.community_trades, t)
                <= StepSum(optimization_results.grid_imports, t)

\* a solution in which a building exports to the community all it exports, and
\* the community exports of a step equal the grid imports of the step
C11_Witness ==
    /\ Solved
    /\ \E i \in OptBuildings, t \in Horizon :
          /\ optimization_results.community_trades[i][t] > 0
          /\ optimization_results.community_trades[i][t]
                = optimization_results.grid_exports[i][t]
          /\ StepSum(optimization_results.community_trades, t)
                = StepSum(optimization_results.grid_imports, t)

\* the three price vectors of the scenario are equal at every step
EqualPrices ==
    \A t \in Horizon :
       /\ scenario.import_prices[t] = scenario.export_prices[t]
       /\ scenario.export_prices[t] = scenario.community_prices[t]

\* C12: when import, export and community price are equal at every step, the
\* objective of a feasible solution is SUM_t price[t] * (SUM_i grid_import[i,t]
\* - SUM_i grid_export[i,t]), whatever the community exports are.
C12_EqualPricesBaseline ==
    (Solved /\ EqualPrices) =>
       optimization_results.objective_value =
          SumOver([t \in Horizon |->
                     scenario.import_prices[t]
                        * (StepSum(optimization_results.grid_imports, t)
                             - StepSum(optimization_results.grid_exports, t))],
                  Horizon)

\* a solution under equal prices with community exports and a non-zero cost
C12_Witness ==
    /\ Solved
    /\ EqualPrices
    /\ OptSum(optimization_results.community_trades) > 0
    /\ optimization_results.objective_value # 0

\* solve has returned its dictionary
SolveReturned ==
    /\ opc \in {"solved", "costed", "reported", "returned"}
    /\ optimization_results.status # "none"

FlowKeys ==
    { "grid_imports", "grid_exports", "community_trades", "battery_charge",
      "battery_discharge", "battery_soc", "flexible_load" }

\* C13: solve returns decision-flow values only when the status is optimal; for
\* every other status the result carries the status and no decision-flow value.
C13_FlowsOnlyWhenOptimal ==
    (SolveReturned /\ optimization_results.status # "optimal")
       => FlowKeys \cap DOMAIN optimization_results = {}

\* C14: solve never raises: it returns a dictionary for every outcome of
\* problem.solve; an infeasible problem gives the status "infeasible", an
\* exception of the solver call gives the status "error", and both have
\* objective_value None.
C14_SolveNeverRaises ==
    SolveReturned =>
       /\ optimization_results.status
             \in {"optimal", "optimal_inaccurate", "infeasible", "unbounded", "error"}
       /\ problem.status = "infeasible" =>
             /\ optimization_results.status = "infeasible"
             /\ optimization_results.objective_value = "None"
       /\ problem.status = "none" =>
             /\ optimization_results.status = "error"
             /\ optimization_results.objective_value = "None"
       /\ optimization_results.status = "error" => problem.status = "none"

\* solve returned after the solver call raised
C14_Witness ==
    /\ opc = "solved"
    /\ problem.status = "none"
    /\ optimization_results.status = "error"
    /\ optimization_results.objective_value = "None"

\* solve returned for an infeasible problem
C14_InfeasibleReached ==
    /\ opc = "solved"
    /\ BoundsInverted(scenario)
    /\ optimization_results.status = "infeasible"

\* C15: calculate_individual_costs returns, for an optimal result, cost[i] =
\* SUM_t [import[t]*grid_import[i,t] - community[t]*community_export[i,t]
\* - export[t]*(grid_export[i,t] - community_export[i,t])], and for every other
\* status a vector of length num_buildings whose entries are all NaN.
C15_IndividualCosts ==
    attributed.status = "returned" =>
       /\ DOMAIN attributed.costs = OptBuildings
       /\ IF optimization_results.status = "optimal"
          THEN \A i \in OptBuildings :
                  attributed.costs[i] =
                     SumOver([t \in Horizon |->
                                attributed.prices.import[t] * optimization_results.grid_imports[i][t]
                                   - attributed.prices.community[t]
                                        * optimization_results.community_trades[i][t]
                                   - attributed.prices.export[t]
                                        * (optimization_results.grid_exports[i][t]
                                             - optimization_results.community_trades[i][t])],
                             Horizon)
          ELSE \A i \in OptBuildings : attributed.costs[i] = "nan"

\* costs attributed for an optimal result with community trades, at three
\* different prices
C15_Witness ==
    /\ attributed.status = "returned"
    /\ optimization_results.status = "optimal"
    /\ OptSum(optimization_results.community_trades) > 0
    /\ attributed.prices.import[0] > attributed.prices.community[0]
    /\ attributed.prices.community[0] > attributed.prices.export[0]
    /\ \E i \in OptBuildings : attributed.costs[i] < 0

\* costs attributed for a result that is not optimal
C15_NanReached ==
    /\ attributed.status = "returned"
    /\ optimization_results.status \in {"infeasible", "error", "optimal_inaccurate"}

\* the input of the scenario is malformed
InvalidInput(sc) == sc.status = "built" /\ (SetupRaises(sc) \/ BoundsInverted(sc))

\* C16: inputs with mismatched building counts or with min_load > max_load are
\* rejected with an error before any constraint is constructed and before any
\* solve is attempted: the scenario returns an error record and no problem is
\* ever solved for it.
C16_InvalidInputRejected ==
    InvalidInput(scenario) =>
       /\ opc = "returned"
       /\ record.status = "error"
       /\ problem = NoProblem

\* run_single_scenario returned a success record for a run without trading
ReturnedWithoutP2P ==
    opc = "returned" /\ record.status = "success" /\ ~scenario.with_p2p

\* C19: with with_p2p = False the community_prices argument is ignored and
\* export_prices is used in its place when the problem is built and when the
\* costs are attributed, so status, flows, individual costs and total cost do
\* not depend on the argument.
C19_CommunityPriceIgnored ==
    ReturnedWithoutP2P =>
       /\ scenario.community_prices = scenario.export_prices
       /\ record.optimization_results.objective_value =
             SumOver([t \in Horizon |->
                        scenario.import_prices[t] * StepSum(record.optimization_results.grid_imports, t)
                           - scenario.export_prices[t]
                                * StepSum(record.optimization_results.grid_exports, t)],
                     Horizon)
       /\ \A i \in OptBuildings :
             record.individual_costs[i] =
                SumOver([t \in Horizon |->
                           scenario.import_prices[t] * record.optimization_results.grid_imports[i][t]
                              - scenario.export_prices[t]
                                   * record.optimization_results.grid_exports[i][t]],
                        Horizon)
       /\ record.total_cost = record.optimization_results.objective_value

\* a run without trading whose community_prices argument differs from the
\* export prices and whose solution has community exports
C19_Witness ==
    /\ ReturnedWithoutP2P
    /\ scenario.community_arg # scenario.export_prices
    /\ OptSum(record.optimization_results.community_trades) > 0
    /\ record.total_cost # 0

\* the prices run_single_scenario gave to calculate_individual_costs
AttributionPrices ==
    [ import    |-> scenario.import_prices,
      export    |-> scenario.export_prices,
      community |-> scenario.community_prices ]

\* a step that is a direct call of calculate_individual_costs changes only the
\* returned vector, and returns the vector of the call before it when the
\* prices are the same
DirectCallIsPure ==
    (opc = "returned" /\ opc' = "returned") =>
       /\ optimization_results' = optimization_results
       /\ scenario' = scenario
       /\ << eta, sol, problem, individual_costs, record >>'
             = << eta, sol, problem, individual_costs, record >>
       /\ (attributed.status = "returned" /\ attributed'.prices = attributed.prices)
             => attributed'.costs = attributed.costs

\* the call made by run_single_scenario changes neither its arguments nor the
\* optimizer
OrchestratorCallIsPure ==
    (opc = "solved" /\ opc' = "costed") =>
       /\ optimization_results' = optimization_results
       /\ << eta, sol, problem, scenario >>' = << eta, sol, problem, scenario >>

\* C20: calculate_individual_costs is a pure function: a call changes neither
\* the result dictionary, the prices nor the state of the optimizer, and two
\* calls on the same dictionary and prices return the same vector.
C20_CostsArePure ==
    /\ [][DirectCallIsPure /\ OrchestratorCallIsPure]_vars
    /\ []( ( /\ opc = "returned"
             /\ record.status = "success"
             /\ attributed.status = "returned"
             /\ attributed.prices = AttributionPrices )
           => attributed.costs = record.individual_costs )

\* a second call of calculate_individual_costs with the prices and the
\* dictionary of the call run_single_scenario made
C20_Witness ==
    /\ opc = "returned"
    /\ record.status = "success"
    /\ attributed.status = "returned"
    /\ attributed.prices = AttributionPrices
    /\ \E i \in OptBuildings : attributed.costs[i] # 0

\* the values of the variables held by a dictionary solve returned
FlowsOf(res) ==
    [ G_down |-> res.grid_imports,
      G_up   |-> res.grid_exports,
      E_comm |-> res.community_trades,
      B_up   |-> res.battery_charge,
      B_down |-> res.battery_discharge,
      SOC    |-> res.battery_soc,
      L      |-> res.flexible_load ]

\* the flows of the dictionary are a solution of the problem built from sc whose
\* objective value is the one the dictionary reports
SolutionOf(res, sc) ==
    /\ Feasible(FlowsOf(res), sc, eta)
    /\ res.objective_value = TotalCost(FlowsOf(res), sc)

\* C17: the flows solve returns for a problem are the solution of that problem,
\* whatever the interleaving with the setup_problem and solve steps of another
\* problem built from the same optimizer.
C17_FlowsOfOwnProblem ==
    /\ (opc = "solved" /\ optimization_results.status = "optimal")
          => SolutionOf(optimization_results, scenario)
    /\ (other.pc = "solved" /\ other.results.status = "optimal")
          => SolutionOf(other.results, other.scenario)

\* the names of all evaluations of a benchmark
EvaluationNames(include_p2p_comparison) ==
    { << j, Evaluations(include_p2p_comparison)[k] >> :
         j \in TariffScenarioNames,
         k \in 1 .. Len(Evaluations(include_p2p_comparison)) }

\* C18: benchmark_tariff_scenarios evaluates every scenario and stores one
\* record per evaluation; an evaluation that is infeasible, hits a solver error
\* or raises during setup gives a 'failed' or 'error' record, the later
\* scenarios are still evaluated, and total_scenarios counts all records.
C18_BatchNeverAborts ==
    /\ (batch.active /\ opc = "returned") =>
          /\ record.status \in {"success", "failed", "error"}
          /\ record.status = "success" <=> optimization_results.status = "optimal"
          /\ record.status = "error" <=> SetupRaises(scenario)
    /\ benchmark_results.status = "returned" =>
          /\ DOMAIN benchmark_results.scenario_results
                = EvaluationNames(batch.include_p2p_comparison)
          /\ \A n \in DOMAIN benchmark_results.scenario_results :
                benchmark_results.scenario_results[n] \in {"success", "failed", "error"}
          /\ benchmark_results.total_scenarios
                = Cardinality(EvaluationNames(batch.include_p2p_comparison))
          /\ benchmark_results.successful_scenarios
                = Cardinality({ n \in EvaluationNames(batch.include_p2p_comparison) :
                                  benchmark_results.scenario_results[n] = "success" })

\* a finished benchmark whose first evaluation failed and whose last evaluation
\* succeeded
C18_Witness ==
    /\ benchmark_results.status = "returned"
    /\ batch.include_p2p_comparison
    /\ benchmark_results.scenario_results[<< 1, "_with_p2p" >>] = "failed"
    /\ benchmark_results.scenario_results[<< num_scenarios, "_without_p2p" >>] = "success"
    /\ benchmark_results.total_scenarios = 2 * num_scenarios

\* a finished benchmark all of whose evaluations raised during setup
C18_AllErrorsReached ==
    /\ benchmark_results.status = "returned"
    /\ \A n \in DOMAIN benchmark_results.scenario_results :
          benchmark_results.scenario_results[n] = "error"
    /\ benchmark_results.total_scenarios > 0

\* ------------------------------------------- properties of the matching pass
\* C21: an accepted trade between surplus-holder i and candidate j records
\* trade[i,j] = min(remaining_surplus[i], remaining_deficit[j]) * efficiency,
\* taken from the remaining amounts at the visit of the pair; remaining_surplus[i]
\* decreases by trade[i,j] / efficiency, remaining_deficit[j] by trade[i,j], and
\* the remaining amounts of every other building stay as they were.
C21_TradeAccounting ==
    [][\A j \in Buildings :
          Accepts(j) =>
             LET m == Min(surplus_remaining[cur_i], deficit_remaining[j])
                 trade == trading_matrix'[cur_i][j]
             IN  /\ trade * trading_efficiency[2] = m * trading_efficiency[1]
                 /\ (surplus_remaining[cur_i] - surplus_remaining'[cur_i])
                        * trading_efficiency[1] = trade * trading_efficiency[2]
                 /\ deficit_remaining[j] - deficit_remaining'[j] = trade
                 /\ \A k \in Buildings \ {cur_i} :
                        surplus_remaining'[k] = surplus_remaining[k]
                 /\ \A k \in Buildings \ {j} :
                        deficit_remaining'[k] = deficit_remaining[k]]_vars

\* a trade at efficiency 0.95 in which the surplus was the smaller side: i gave
\* its 2 units, j received 1.9 of the 3 it lacked, and another surplus-holder
\* still holds all of its surplus
C21_Witness ==
    /\ InFlows
    /\ pc = "inner"
    /\ trading_efficiency = <<19, 20>>
    /\ \E j \in Buildings :
          /\ call.surplus[cur_i] = 2 * UnitsPerKWh
          /\ call.deficit[j] = 3 * UnitsPerKWh
          /\ trading_matrix[cur_i][j] = 1900 * Milli
          /\ surplus_remaining[cur_i] = 0
          /\ deficit_remaining[j] = 1100 * Milli
    /\ \E k \in Buildings \ {cur_i} :
          surplus_remaining[k] > 0 /\ surplus_remaining[k] = call.surplus[k]

\* the step of OuterLoop that takes the next surplus-holder takes one whose
\* surplus no unvisited building exceeds
SurplusOrderStep ==
    (pc = "outer" /\ outer_todo' # outer_todo) =>
        \A i \in outer_todo \ outer_todo' :
           \A k \in outer_todo' : call.surplus[k] <= call.surplus[i]

\* the candidates of surplus-holder i are the adjacent buildings with a remaining
\* deficit, as the remaining deficits stand when the turn of i begins
CandidatesAtTurn ==
    (pc = "outer" /\ pc' = "inner") =>
        inner_todo' = { j \in Buildings :
                           deficit_remaining[j] > 0 /\ trading_allowed[cur_i'][j] = 1 }

\* the step of InnerLoop that visits a candidate visits one whose remaining
\* deficit no unvisited candidate exceeds
DeficitOrderStep ==
    (pc = "inner" /\ pc' = "inner" /\ inner_todo' # inner_todo) =>
        \A j \in inner_todo \ inner_todo' :
           \A k \in inner_todo' : deficit_remaining[k] <= deficit_remaining[j]

\* during the turn of i the remaining deficit of a candidate not yet visited is
\* the one it had when the turn began
UnvisitedKeepDeficit ==
    (pc = "inner" /\ pc' = "inner") =>
        \A k \in inner_todo' : deficit_remaining'[k] = deficit_remaining[k]

\* C22: within a pass the surplus-holders are processed in order of descending
\* surplus, and for each surplus-holder i the candidates (remaining deficit > 0
\* and adjacency[i,j] = 1) are visited in order of descending remaining deficit
\* as it stands when the turn of i begins, not in order of the original deficit.
C22_VisitOrder ==
    [][SurplusOrderStep /\ CandidatesAtTurn /\ DeficitOrderStep
          /\ UnvisitedKeepDeficit]_vars

\* the second surplus-holder has visited a candidate j while a candidate k whose
\* original deficit is greater, and whose remaining deficit is smaller, waits
C22_Witness ==
    /\ InFlows
    /\ pc = "inner"
    /\ \E j \in Buildings \ inner_todo, k \in inner_todo :
          /\ trading_matrix[cur_i][j] > 0
          /\ call.deficit[k] > call.deficit[j]
          /\ deficit_remaining[k] < call.deficit[j]
          /\ deficit_remaining[k] > 0

\* the building of lowest index among those of greatest key
FirstByIndex(todo, key) ==
    CHOOSE i \in NextInOrder(todo, key) : \A k \in NextInOrder(todo, key) : i <= k

\* among surplus-holders of equal surplus the one of lower index is taken first
SurplusTiesByIndex ==
    (pc = "outer" /\ pc' = "inner") =>
        cur_i' = FirstByIndex(outer_todo, call.surplus)

\* among candidates of equal remaining deficit the one of lower index is visited first
DeficitTiesByIndex ==
    (pc = "inner" /\ pc' = "inner" /\ inner_todo' # inner_todo) =>
        inner_todo \ inner_todo' = { FirstByIndex(inner_todo, deficit_remaining) }

\* C23: when two surplus-holders have equal surplus, or two candidates have equal
\* remaining deficit, the one with the lower building index is processed first
\* (so that the trading matrix is the same for every run on the same inputs).
C23_TiesByIndex ==
    [][SurplusTiesByIndex /\ DeficitTiesByIndex]_vars

\* every entry of the matrix under construction, and of the returned one, is zero
\* or above the threshold
EntriesAboveThreshold ==
    \A i, j \in Buildings :
       /\ trading_matrix[i][j] # 0 => trading_matrix[i][j] > MinTradeThreshold
       /\ (InFlows /\ pc = "done" /\ results.trading_matrix[i][j] # 0)
             => results.trading_matrix[i][j] > MinTradeThreshold

\* the visit of a candidate whose trade amount is at most the threshold records
\* nothing and debits nothing
SmallTradeSkipped ==
    (pc = "inner" /\ pc' = "inner" /\ inner_todo' # inner_todo) =>
        \A j \in inner_todo \ inner_todo' :
           MulEff(Min(surplus_remaining[cur_i], deficit_remaining[j]), trading_efficiency)
                 <= MinTradeThreshold
              => UNCHANGED << trading_matrix, surplus_remaining, deficit_remaining >>

\* C24: every non-zero entry of a trading matrix is strictly greater than the
\* minimum threshold 0.001; a candidate trade whose amount after efficiency is at
\* most 0.001 is not recorded and changes neither the remaining surplus of i nor
\* the remaining deficit of j.
C24_MinimumTrade ==
    /\ []EntriesAboveThreshold
    /\ [][SmallTradeSkipped]_vars

\* at efficiency 1 a surplus-holder with exactly 0.001 has visited a candidate
\* with a deficit: nothing was recorded and both remaining amounts are intact
C24_Witness ==
    /\ InFlows
    /\ pc = "inner"
    /\ trading_efficiency = <<1, 1>>
    /\ surplus_remaining[cur_i] = MinTradeThreshold
    /\ call.surplus[cur_i] = MinTradeThreshold
    /\ \E j \in Buildings \ inner_todo :
          /\ trading_allowed[cur_i][j] = 1
          /\ call.deficit[j] > MinTradeThreshold
          /\ deficit_remaining[j] = call.deficit[j]
          /\ trading_matrix[cur_i][j] = 0

\* ------------------------------------------------ properties of the mechanism
\* the arguments of simulate_trading_period
PeriodInputs(p) ==
    << p.generation_profiles, p.demand_profiles, p.import_prices, p.export_prices,
       p.community_prices >>

\* no step of a pass, of the cost calculation or of a period changes the
\* efficiency, and the adjacency changes only in a step of set_trading_network
AdjacencyOnlyBySetNetwork ==
    /\ trading_efficiency' = trading_efficiency
    /\ trading_allowed' # trading_allowed =>
          (call'.op = "set_trading_network" /\ pc = "idle" /\ ~period.active)

\* the arrays and prices passed to a call are the same at every step of the call
InputsUntouched ==
    /\ (InFlows /\ call'.op = "optimize_trading_flows" /\ pc # "idle" /\ pc' # "idle")
          => call' = call
    /\ (period.active /\ period'.active) => PeriodInputs(period') = PeriodInputs(period)

\* a pass starts from the arguments of its call alone: an empty matrix and the
\* whole surplus and deficit, whatever the pass before it left
PassStartsFresh ==
    (pc = "idle" /\ pc' # "idle") =>
        /\ trading_matrix' = ZeroMatrix
        /\ pc' = "outer" =>
              /\ surplus_remaining' = call'.surplus
              /\ deficit_remaining' = call'.deficit
              /\ outer_todo' = Buildings

\* the pass of timestep t is called with the potential of column t and the prices
\* of t, and its results are stored in column t only
StepUsesOwnInputs ==
    (period.active /\ pc = "idle" /\ pc' # "idle") =>
        LET t == period.t
            potential == TradingPotential(Column(period.generation_profiles, t),
                                          Column(period.demand_profiles, t))
        IN  /\ call'.surplus = potential[1]
            /\ call'.deficit = potential[2]
            /\ call'.community_price = period.community_prices[t]
            /\ call'.grid_export_price = period.export_prices[t]
            /\ call'.grid_import_price = period.import_prices[t]

\* C25: the matcher keeps no state between calls: optimize_trading_flows,
\* calculate_trading_costs and simulate_trading_period leave the adjacency, the
\* efficiency and their input arrays unchanged, the pass of timestep t starts from
\* the inputs of timestep t alone, and the adjacency changes only through
\* set_trading_network.
C25_NoRetainedState ==
    [][AdjacencyOnlyBySetNetwork /\ InputsUntouched /\ PassStartsFresh
          /\ StepUsesOwnInputs]_vars

\* the second timestep of a period is in its pass, under an adjacency that
\* set_trading_network installed; the first timestep traded, the second has
\* debited a surplus, and the arguments of the pass are those it was called with
C25_Witness ==
    /\ period.active
    /\ period.t = 1
    /\ InFlows
    /\ pc = "inner"
    /\ trading_allowed # InitialAdjacency
    /\ \E i, j \in Buildings : period.trading_matrices[0][i][j] > 0
    /\ \E i \in Buildings : surplus_remaining[i] < call.surplus[i]
    /\ call.surplus = TradingPotential(Column(period.generation_profiles, 1),
                                       Column(period.demand_profiles, 1))[1]

\* ------------------------------------------- properties of the solved problem
\* the discharge of building i at step t is covered by the energy the battery
\* holds: B_down / eta_dis <= SOC + eta_ch * B_up, multiplied by the denominator of
\* eta_ch and the numerator of eta_dis
DischargeCovered(x, e, i, t) ==
    e.dis[2] * e.ch[2] * x.B_down[i][t]
       <= x.SOC[i][t] * e.ch[2] * e.dis[1] + e.ch[1] * e.dis[1] * x.B_up[i][t]

\* C26: in every feasible solution the energy a battery discharges at any step,
\* the last step T-1 included, is covered by the energy it holds:
\* battery_discharge[i,t] / eta_discharge <= battery_soc[i,t] + eta_charge *
\* battery_charge[i,t] for every building i and every t in 0..T-1.
C26_DischargeCovered ==
    Solved =>
       \A i \in OptBuildings, t \in Horizon : DischargeCovered(sol, eta, i, t)

\* the discharge is covered at every step that has a successor
C26_CoveredBeforeLastStep ==
    Solved =>
       \A i \in OptBuildings, t \in 0 .. (time_horizon - 2) :
          DischargeCovered(sol, eta, i, t)

\* ------------------------------------------- properties of measured amounts
\* in the returned matrix no building sends more than its surplus or receives
\* more than its deficit
TradesWithinPotential ==
    (InFlows /\ pc = "done") =>
        \A i \in Buildings :
           /\ RowSum(results.trading_matrix, i) <= call.surplus[i]
           /\ ColSum(results.trading_matrix, i) <= call.deficit[i]

\* C27: for non-negative surplus and deficit and an efficiency in (0,1],
\* remaining surplus and remaining deficit are never negative at any point of the
\* pass, and in the result SUM_j trade[i,j] <= surplus[i] and
\* SUM_i trade[i,j] <= deficit[j].
C27_RemainingNeverNegative ==
    /\ \A i \in Buildings : surplus_remaining[i] >= 0 /\ deficit_remaining[i] >= 0
    /\ TradesWithinPotential

\* what does hold: remaining deficit is never negative and remaining surplus is
\* never below zero by more than the rounding of the quotient trade / efficiency,
\* one unit in the last place; in the result SUM_j trade[i,j] <= surplus[i] and
\* SUM_i trade[i,j] <= deficit[j].
RemainingWithinRounding ==
    /\ \A i \in Buildings : surplus_remaining[i] + 1 >= 0 /\ deficit_remaining[i] >= 0
    /\ TradesWithinPotential

\* a pass has ended in which a surplus-holder gave all it had and the quotient
\* trade / 0.95, rounded, is above the surplus it was taken from
RoundingOvershootReached ==
    /\ InFlows
    /\ pc = "done"
    /\ trading_efficiency = <<19, 20>>
    /\ \E i \in Buildings :
          /\ surplus_remaining[i] < 0
          /\ RowSum(results.trading_matrix, i) > 0
          /\ RowSum(results.trading_matrix, i) < call.surplus[i]

\* ------------------------------------------------ properties of the settlement
\* the cost of building i at step t of the period when every surplus is exported
\* to the grid and every deficit imported from it
GridOnlyCost(p, i, t) ==
    LET potential == TradingPotential(Column(p.generation_profiles, t),
                                      Column(p.demand_profiles, t))
    IN  p.import_prices[t] * potential[2][i] - p.export_prices[t] * potential[1][i]

\* C28: no building is worse off with the matcher than with grid-only
\* settlement: the net_cost[i] that calculate_trading_costs derives from the
\* result of optimize_trading_flows is at most import_price * deficit[i] -
\* export_price * surplus[i], for every building i and whatever the prices are.
C28_NoBuildingWorseOff ==
    period.active =>
       \A t \in Steps, i \in Buildings :
          t < period.t => period.total_costs[i][t] <= GridOnlyCost(period, i, t)

\* a settled timestep in which a seller and a buyer are both strictly better off
\* than with the grid alone, in a period that also has a step whose prices
\* forbid trading and leave every building at its grid-only cost
C28_Witness ==
    /\ period.active
    /\ period.t = time_steps
    /\ \E t \in Steps, i, j \in Buildings :
          /\ period.trading_matrices[t][i][j] > 0
          /\ period.total_costs[i][t] < GridOnlyCost(period, i, t)
          /\ period.total_costs[j][t] < GridOnlyCost(period, j, t)
    /\ \E t \in Steps :
          /\ period.community_prices[t] >= period.import_prices[t]
          /\ \E i \in Buildings : GridOnlyCost(period, i, t) # 0
          /\ \A i \in Buildings : period.total_costs[i][t] = GridOnlyCost(period, i, t)

\* the sum of a vector of costs over the buildings
CostSum(costs) == SumOver(costs, OptBuildings)

\* the costs run_single_scenario computed sum to the objective value
OrchestratorCostsSum ==
    opc \in {"costed", "reported"} =>
       CostSum(individual_costs) = optimization_results.objective_value

\* the costs of a direct call with the prices of setup_problem sum to the
\* objective value
DirectCostsSum ==
    ( /\ opc = "returned"
      /\ optimization_results.status = "optimal"
      /\ attributed.status = "returned"
      /\ attributed.prices = AttributionPrices )
       => CostSum(attributed.costs) = optimization_results.objective_value

\* C29: for an optimal result the per-building costs of
\* calculate_individual_costs, computed with the three price vectors that were
\* given to setup_problem, sum over all buildings to the objective value of the
\* solved problem.
C29_CostsSumToObjective == OrchestratorCostsSum /\ DirectCostsSum

\* costs of a solved scenario with community trades: one building earns, another
\* pays, and the objective value is not zero
C29_Witness ==
    /\ opc = "costed"
    /\ OptSum(optimization_results.community_trades) > 0
    /\ optimization_results.objective_value # 0
    /\ \E i, j \in OptBuildings : individual_costs[i] < 0 /\ individual_costs[j] > 0

\* ------------------------------------------ properties of the period results
\* at every stored step no building imports more from the grid than it demands
ImportsWithinDemand ==
    period.active =>
       \A t \in Steps, i \in Buildings :
          t < period.t => /\ period.grid_imports[i][t] >= 0
                          /\ period.grid_imports[i][t] <= period.demand_profiles[i][t]

\* C30: for non-negative generation and demand profiles and an efficiency in
\* (0,1], the self_sufficiency_ratio reported by simulate_trading_period lies in
\* [0, 1], because the total grid imports never exceed the total demand.
C30_RatioWithinUnitInterval ==
    /\ ImportsWithinDemand
    /\ PeriodReturned =>
          /\ SeriesSum(period_results.grid_imports) <= SeriesSum(period.demand_profiles)
          /\ period_results.self_sufficiency_ratio[2] > 0
          /\ period_results.self_sufficiency_ratio[1] >= 0
          /\ period_results.self_sufficiency_ratio[1]
                <= period_results.self_sufficiency_ratio[2]

\* a returned period in which a building covered part of its demand from the
\* community and imported the rest, the transfer loss included, from the grid
C30_Witness ==
    /\ PeriodReturned
    /\ trading_efficiency = <<19, 20>>
    /\ \E t \in Steps, j \in Buildings :
          /\ period_results.community_imports[j][t] > 0
          /\ period_results.grid_imports[j][t] > 0
          /\ period_results.grid_imports[j][t] < period.demand_profiles[j][t]
    /\ period_results.self_sufficiency_ratio[1] > 0
    /\ period_results.self_sufficiency_ratio[1] < period_results.self_sufficiency_ratio[2]

====
